---- MODULE Spec2Model ----
(***************************************************************************)
(* Model of the visit aggregation and dataset generation pipeline of       *)
(* scripts/lib/aggregator.py (write_outputs and the functions it calls),   *)
(* over a store of visits / domains / secondary_categories rows.           *)
(*                                                                         *)
(* Text values on which the code works character by character (tags,       *)
(* domain names, labels) are sequences of one-character strings; file      *)
(* names are strings built with \o.  None is Python's None / SQL NULL.     *)
(***************************************************************************)
EXTENDS Integers, Sequences, FiniteSets, TLC

\* Python's None / SQL NULL, comparable with every text value.
None == <<"None">>

\* ------------------------------------------------------------------------
\* Text helpers (str.strip, str.lower, comparison by code point)
\* ------------------------------------------------------------------------

IsSpace(ch) == ch = " "

LowerChar(ch) ==
  CASE ch = "A" -> "a"
    [] ch = "B" -> "b"
    [] ch = "L" -> "l"
    [] ch = "N" -> "n"
    [] ch = "T" -> "t"
    [] OTHER -> ch

Lower(s) == [i \in 1..Len(s) |-> LowerChar(s[i])]

RECURSIVE LStrip(_)
LStrip(s) == IF s # <<>> /\ IsSpace(Head(s)) THEN LStrip(Tail(s)) ELSE s

RECURSIVE RStrip(_)
RStrip(s) ==
  IF s # <<>> /\ IsSpace(s[Len(s)]) THEN RStrip(SubSeq(s, 1, Len(s) - 1)) ELSE s

Strip(s) == RStrip(LStrip(s))

\* Code points of the characters used by the model.
Ord(ch) ==
  CASE ch = " " -> 32
    [] ch = "#" -> 35
    [] ch = "-" -> 45
    [] ch = "." -> 46
    [] ch = "/" -> 47
    [] ch = "0" -> 48
    [] ch = "1" -> 49
    [] ch = "2" -> 50
    [] ch = "3" -> 51
    [] ch = "4" -> 52
    [] ch = "5" -> 53
    [] ch = "6" -> 54
    [] ch = "7" -> 55
    [] ch = "8" -> 56
    [] ch = "9" -> 57
    [] ch = ":" -> 58
    [] ch = "@" -> 64
    [] ch = "A" -> 65
    [] ch = "B" -> 66
    [] ch = "C" -> 67
    [] ch = "D" -> 68
    [] ch = "E" -> 69
    [] ch = "L" -> 76
    [] ch = "M" -> 77
    [] ch = "N" -> 78
    [] ch = "O" -> 79
    [] ch = "P" -> 80
    [] ch = "T" -> 84
    [] ch = "V" -> 86
    [] ch = "_" -> 95
    [] ch = "a" -> 97
    [] ch = "b" -> 98
    [] ch = "c" -> 99
    [] ch = "d" -> 100
    [] ch = "e" -> 101
    [] ch = "g" -> 103
    [] ch = "i" -> 105
    [] ch = "l" -> 108
    [] ch = "m" -> 109
    [] ch = "n" -> 110
    [] ch = "o" -> 111
    [] ch = "p" -> 112
    [] ch = "r" -> 114
    [] ch = "s" -> 115
    [] ch = "t" -> 116
    [] ch = "u" -> 117
    [] ch = "v" -> 118
    [] ch = "w" -> 119
    [] OTHER -> 127

\* s < t in Python's string order.
RECURSIVE StrLess(_, _)
StrLess(s, t) ==
  IF t = <<>> THEN FALSE
  ELSE IF s = <<>> THEN TRUE
  ELSE IF Ord(Head(s)) # Ord(Head(t)) THEN Ord(Head(s)) < Ord(Head(t))
  ELSE StrLess(Tail(s), Tail(t))

\* as_str: None stays None, a str is returned as it is.
as_str(value) == value

\* normalize_tag of the aggregator: canonical form lowercase with leading '#'.
normalize_tag(raw) ==
  IF raw = None THEN None
  ELSE LET cleaned == Lower(Strip(raw))
       IN IF cleaned = <<>> THEN None
          ELSE IF Head(cleaned) = "#" THEN cleaned
          ELSE <<"#">> \o cleaned

\* normalize_domain: the stored names carry no "//", so urlparse(url).hostname
\* is None and the name is the whole value, stripped and lowercased.
normalize_domain(raw) ==
  LET url == as_str(raw)
  IN IF url = None THEN None ELSE Lower(Strip(url))

\* ------------------------------------------------------------------------
\* Time: strptime, astimezone, weekday
\* ------------------------------------------------------------------------

IsLeap(y) == (y % 4 = 0) /\ ((y % 100 # 0) \/ (y % 400 = 0))

DaysBeforeYear(y) ==
  LET p == y - 1 IN p * 365 + (p \div 4) - (p \div 100) + (p \div 400)

DaysBeforeMonth(y, m) ==
  LET cum == <<0, 31, 59, 90, 120, 151, 181, 212, 243, 273, 304, 334>>
  IN cum[m] + (IF m > 2 /\ IsLeap(y) THEN 1 ELSE 0)

\* date.toordinal(): day 1 is 0001-01-01, a Monday.
ToOrdinal(y, m, d) == DaysBeforeYear(y) + DaysBeforeMonth(y, m) + d

\* Minutes since the start of ordinal day 0 of a parsed "%Y-%m-%d %H:%M:%S".
UtcMinutes(ts) == ToOrdinal(ts.y, ts.mo, ts.d) * 1440 + ts.h * 60 + ts.mi

\* ZoneInfo(name).utcoffset at a UTC instant, in minutes (2024 rules).
UtcOffsetMinutes(zone, ts) ==
  CASE zone = "UTC" -> 0
    [] zone = "America/New_York" ->
         LET dstStart == ToOrdinal(2024, 3, 10) * 1440 + 7 * 60
             dstEnd   == ToOrdinal(2024, 11, 3) * 1440 + 6 * 60
         IN IF UtcMinutes(ts) >= dstStart /\ UtcMinutes(ts) < dstEnd
            THEN -240 ELSE -300

\* dt.replace(tzinfo=UTC).astimezone(local_tz), as local minutes.
LocalMinutes(ts, zone) == UtcMinutes(ts) + UtcOffsetMinutes(zone, ts)

\* datetime.weekday(): Monday = 0.
Weekday(localMinutes) == ((localMinutes \div 1440) + 6) % 7

HourOf(localMinutes) == (localMinutes % 1440) \div 60

\* Variant: the key with Python's weekday (Monday = 0) left unshifted.
SlotKey_MondayZero(ts, zone) ==
  LET lm == LocalMinutes(ts, zone)
  IN << Weekday(lm), HourOf(lm) >>

\* The (day, hour) key of aggregate_visits: Sunday = 0.
SlotKey(ts, zone) ==
  LET lm == LocalMinutes(ts, zone)
  IN << (Weekday(lm) + 1) % 7, HourOf(lm) >>

\* ------------------------------------------------------------------------
\* Python containers: dict as a function with a finite domain
\* ------------------------------------------------------------------------

EmptyDict == << >>

DictHas(dict, key) == key \in DOMAIN dict

DictSet(dict, key, value) == (key :> value) @@ dict

\* Truth value of an optional text: None and the empty text are false.
Truthy(value) == value # None /\ value # <<>>

\* ------------------------------------------------------------------------
\* Taxonomy and override loading
\* ------------------------------------------------------------------------

\* The loop of load_categories over the entries of the 'categories' list.
RECURSIVE CategoryEntries(_, _)
CategoryEntries(entries, categories) ==
  IF entries = <<>> THEN categories
  ELSE LET entry == Head(entries)
       IN IF ~entry.isdict THEN CategoryEntries(Tail(entries), categories)
          ELSE LET tag == normalize_tag(as_str(entry.tag))
                   label == IF Truthy(as_str(entry.label)) THEN as_str(entry.label)
                            ELSE IF tag # None THEN Tail(tag) ELSE <<>>
                   cat_type == as_str(entry.type)
               IN IF tag # None
                  THEN CategoryEntries(Tail(entries),
                         DictSet(categories, tag,
                                 [tag |-> tag, label |-> label, type |-> cat_type]))
                  ELSE CategoryEntries(Tail(entries), categories)

\* Variant: load_categories that also raises when no entry is of type primary
\* (as load_categories of assist-category-map.py does).
load_categories_RequirePrimary(file) ==
  IF ~file.exists
    THEN [error |-> "FileNotFoundError", value |-> EmptyDict]
  ELSE IF file.payload # "dict"
    THEN [error |-> "ValueError", value |-> EmptyDict]
  ELSE IF ~file.islist
    THEN [error |-> "ValueError", value |-> EmptyDict]
  ELSE LET categories == CategoryEntries(file.items, EmptyDict)
       IN IF \E tag \in DOMAIN categories : categories[tag].type = <<"primary">>
          THEN [error |-> "ok", value |-> categories]
          ELSE [error |-> "ValueError", value |-> EmptyDict]

\* load_categories: the error raised ("ok" when it returns) and the dict.
load_categories(file) ==
  IF ~file.exists
    THEN [error |-> "FileNotFoundError", value |-> EmptyDict]
  ELSE IF file.payload # "dict"
    THEN [error |-> "ValueError", value |-> EmptyDict]
  ELSE IF ~file.islist
    THEN [error |-> "ValueError", value |-> EmptyDict]
  ELSE [error |-> "ok", value |-> CategoryEntries(file.items, EmptyDict)]

\* The inner loop of load_domain_overrides over an entry's 'secondary' list
\* (a missing or non-list 'secondary' is the empty list).
RECURSIVE OverrideSecondary(_)
OverrideSecondary(items) ==
  IF items = <<>> THEN <<>>
  ELSE LET tag == normalize_tag(as_str(Head(items)))
       IN IF tag # None THEN <<tag>> \o OverrideSecondary(Tail(items))
          ELSE OverrideSecondary(Tail(items))

\* The loop of load_domain_overrides over the entries of the 'domains' list.
RECURSIVE OverrideEntries(_, _)
OverrideEntries(entries, overrides) ==
  IF entries = <<>> THEN overrides
  ELSE LET entry == Head(entries)
       IN IF ~entry.isdict THEN OverrideEntries(Tail(entries), overrides)
          ELSE LET domain == as_str(entry.domain)
               IN IF ~Truthy(domain) THEN OverrideEntries(Tail(entries), overrides)
                  ELSE LET primary == normalize_tag(as_str(entry.primary))
                           secondary == OverrideSecondary(entry.secondary)
                       IN OverrideEntries(Tail(entries),
                            DictSet(overrides, Lower(domain),
                                    [primary |-> primary, secondary |-> secondary]))

\* load_domain_overrides: never raises; every malformed shape yields {}.
load_domain_overrides(file) ==
  IF ~file.exists THEN EmptyDict
  ELSE IF file.payload # "dict" THEN EmptyDict
  ELSE IF ~file.islist THEN EmptyDict
  ELSE OverrideEntries(file.items, EmptyDict)

\* ------------------------------------------------------------------------
\* Domain metadata
\* ------------------------------------------------------------------------

\* _load_secondary_categories: normalized domain -> set of normalized tags.
_load_secondary_categories(rows) ==
  LET kept == {r \in rows : normalize_tag(as_str(r.tag)) # None
                            /\ Truthy(normalize_domain(r.domain))}
      names == {normalize_domain(r.domain) : r \in kept}
  IN [name \in names |->
        {normalize_tag(as_str(r.tag)) :
           r \in {k \in kept : normalize_domain(k.domain) = name}}]

\* primary_tag of one domains row (aggregator.py line 196): the override's
\* primary whenever an override entry exists for the domain, otherwise the
\* normalized main_category.
PrimaryTagOf(overrides, domain_name, main_cat) ==
  IF DictHas(overrides, domain_name)
  THEN overrides[domain_name].primary
  ELSE normalize_tag(as_str(main_cat))

\* Variant: the override's secondary tags replace the stored ones.
SecondaryTagsOf_OverrideReplaces(overrides, secondary_map, domain_name) ==
  IF DictHas(overrides, domain_name)
  THEN LET secondary == overrides[domain_name].secondary
       IN {secondary[i] : i \in 1..Len(secondary)}
  ELSE IF DictHas(secondary_map, domain_name) THEN secondary_map[domain_name] ELSE {}

\* secondary_tags of one domains row: set(base_secondary), updated with
\* override.secondary when there is an override.
SecondaryTagsOf(overrides, secondary_map, domain_name) ==
  (IF DictHas(secondary_map, domain_name) THEN secondary_map[domain_name] ELSE {})
    \cup (IF DictHas(overrides, domain_name)
          THEN LET secondary == overrides[domain_name].secondary
               IN {secondary[i] : i \in 1..Len(secondary)}
          ELSE {})

\* The loop of _load_domain_metadata over the rows of the domains table.
RECURSIVE DomainRows(_, _, _, _)
DomainRows(rows, overrides, secondary_map, metadata) ==
  IF rows = <<>> THEN metadata
  ELSE LET row == Head(rows)
           nd == normalize_domain(row.domain)
           domain_name == IF Truthy(nd) THEN nd ELSE <<>>
           meta == [domain |-> domain_name,
                    title |-> as_str(row.title),
                    primary_tag |-> PrimaryTagOf(overrides, domain_name, row.main_category),
                    secondary_tags |-> SecondaryTagsOf(overrides, secondary_map, domain_name),
                    favicon_type |-> as_str(row.favicon_type),
                    favicon_data |-> row.favicon_data]
       IN DomainRows(Tail(rows), overrides, secondary_map,
                     DictSet(metadata, domain_name, meta))

_load_domain_metadata(domainRows, secondaryRows, overrides) ==
  DomainRows(domainRows, overrides, _load_secondary_categories(secondaryRows), EmptyDict)

\* ------------------------------------------------------------------------
\* Visit aggregation
\* ------------------------------------------------------------------------

\* s <= t for two stored timestamps ("" is <<>>; the fixed-width text
\* "YYYY-MM-DD HH:MM:SS" is the sequence of its fields).
RECURSIVE TsLeq(_, _)
TsLeq(s, t) ==
  IF s = <<>> THEN TRUE
  ELSE IF t = <<>> THEN FALSE
  ELSE IF Head(s) # Head(t) THEN Head(s) < Head(t)
  ELSE TsLeq(Tail(s), Tail(t))

\* Row a comes before row b in "SELECT domain, timestamp FROM visits ORDER BY
\* timestamp": rows of equal timestamp come in the order of the covering index
\* (timestamp, domain), which is repeatable for an unchanged store.
RowBefore(a, b) ==
  IF a.timestamp # b.timestamp THEN TsLeq(a.timestamp, b.timestamp)
  ELSE ~StrLess(b.domain, a.domain)

\* The result of the query on the visits relation.
RECURSIVE OrderByTimestamp(_)
OrderByTimestamp(rows) ==
  IF rows = {} THEN <<>>
  ELSE LET first == CHOOSE r \in rows : \A o \in rows : RowBefore(r, o)
       IN <<first>> \o OrderByTimestamp(rows \ {first})

\* datetime.strptime(timestamp, "%Y-%m-%d %H:%M:%S")
Strptime(timestamp) ==
  [y |-> timestamp[1], mo |-> timestamp[2], d |-> timestamp[3],
   h |-> timestamp[4], mi |-> timestamp[5], s |-> timestamp[6]]

\* bucket.per_domain[name] = bucket.per_domain.get(name, 0) + 1 on a dict kept
\* as the sequence of its items in insertion order.
RECURSIVE PerDomainIncr(_, _)
PerDomainIncr(per_domain, name) ==
  IF per_domain = <<>> THEN << [domain |-> name, count |-> 1] >>
  ELSE IF Head(per_domain).domain = name
       THEN << [Head(per_domain) EXCEPT !.count = @ + 1] >> \o Tail(per_domain)
       ELSE << Head(per_domain) >> \o PerDomainIncr(Tail(per_domain), name)

\* Variant: the loop body that counts a domain only when it opens the bucket.
AggregateRow_FirstDomainOnly(aggregates, row, zone) ==
  LET nd == normalize_domain(row.domain)
      domain_name == IF Truthy(nd) THEN nd ELSE <<>>
      timestamp == as_str(row.timestamp)
  IN IF timestamp = <<>> THEN aggregates
     ELSE LET key == SlotKey(Strptime(timestamp), zone)
              bucket == IF DictHas(aggregates, key) THEN aggregates[key]
                        ELSE [day |-> key[1], hour |-> key[2], total |-> 0,
                              per_domain |-> <<>>]
          IN DictSet(aggregates, key,
                     [bucket EXCEPT !.total = @ + 1,
                                    !.per_domain = IF @ = <<>>
                                                   THEN PerDomainIncr(@, domain_name)
                                                   ELSE @])

\* The body of the loop of aggregate_visits for one row.
AggregateRow(aggregates, row, zone) ==
  LET nd == normalize_domain(row.domain)
      domain_name == IF Truthy(nd) THEN nd ELSE <<>>
      timestamp == as_str(row.timestamp)
  IN IF timestamp = <<>> THEN aggregates
     ELSE LET key == SlotKey(Strptime(timestamp), zone)
              bucket == IF DictHas(aggregates, key) THEN aggregates[key]
                        ELSE [day |-> key[1], hour |-> key[2], total |-> 0,
                              per_domain |-> <<>>]
          IN DictSet(aggregates, key,
                     [bucket EXCEPT !.total = @ + 1,
                                    !.per_domain = PerDomainIncr(@, domain_name)])

\* aggregate_visits after the first n rows of the query result.
RECURSIVE AggregatePrefix(_, _, _)
AggregatePrefix(ordered, n, zone) ==
  IF n = 0 THEN EmptyDict
  ELSE AggregateRow(AggregatePrefix(ordered, n - 1, zone), ordered[n], zone)

aggregate_visits(visitRows, zone) ==
  LET ordered == OrderByTimestamp(visitRows)
  IN AggregatePrefix(ordered, Len(ordered), zone)

\* ------------------------------------------------------------------------
\* Level0
\* ------------------------------------------------------------------------

\* Variant: the keys in descending order.
KeyLess_Descending(a, b) == b[1] < a[1] \/ (a[1] = b[1] /\ b[2] < a[2])

\* sorted(aggregates.items()): the keys (day, hour) in ascending order.
KeyLess(a, b) == a[1] < b[1] \/ (a[1] = b[1] /\ a[2] < b[2])

RECURSIVE SortedKeys(_)
SortedKeys(keys) ==
  IF keys = {} THEN <<>>
  ELSE LET least == CHOOSE k \in keys : \A o \in keys \ {k} : KeyLess(k, o)
       IN <<least>> \o SortedKeys(keys \ {least})

\* Variant: the least total in place of the greatest.
MaxTotal_Min(aggregates) ==
  LET totals == {aggregates[k].total : k \in DOMAIN aggregates}
  IN CHOOSE m \in totals : \A t \in totals : m <= t

MaxTotal(aggregates) ==
  LET totals == {aggregates[k].total : k \in DOMAIN aggregates}
  IN CHOOSE m \in totals : \A t \in totals : t <= m

\* int(round(total / max_total * 100)): Python rounds a half to the even
\* neighbour.  The quotient is taken exactly; for the totals of this model
\* the double-precision result rounds to the same integer.
PyRound(num, den) ==
  LET q == num \div den
      r == num % den
  IN IF 2 * r < den THEN q
     ELSE IF 2 * r > den THEN q + 1
     ELSE IF q % 2 = 0 THEN q ELSE q + 1

SizeOf(total, max_total) ==
  IF max_total # 0 THEN PyRound(total * 100, max_total) ELSE 0

\* Variant: value counts the domains of the slot, not its visits.
generate_level0_CountDomains(aggregates) ==
  IF DOMAIN aggregates = {} THEN <<>>
  ELSE LET max_total == MaxTotal(aggregates)
           keys == SortedKeys(DOMAIN aggregates)
       IN [i \in 1..Len(keys) |->
             LET bucket == aggregates[keys[i]]
             IN [day |-> bucket.day, hour |-> bucket.hour,
                 value |-> Len(bucket.per_domain),
                 size |-> SizeOf(bucket.total, max_total)]]

generate_level0(aggregates) ==
  IF DOMAIN aggregates = {} THEN <<>>
  ELSE LET max_total == MaxTotal(aggregates)
           keys == SortedKeys(DOMAIN aggregates)
       IN [i \in 1..Len(keys) |->
             LET bucket == aggregates[keys[i]]
             IN [day |-> bucket.day, hour |-> bucket.hour,
                 value |-> bucket.total, size |-> SizeOf(bucket.total, max_total)]]

\* ------------------------------------------------------------------------
\* Sprites
\* ------------------------------------------------------------------------

\* str.isalnum for the characters of the model.
IsAlnum(ch) ==
  LET o == Ord(ch)
  IN (o >= 48 /\ o <= 57) \/ (o >= 65 /\ o <= 90) \/ (o >= 97 /\ o <= 122)

RECURSIVE LStripDash(_)
LStripDash(s) == IF s # <<>> /\ Head(s) = "-" THEN LStripDash(Tail(s)) ELSE s

\* "-".join(filter(None, sanitized.split("-"))): runs of '-' collapse to one,
\* leading and trailing ones disappear.
RECURSIVE Compact(_, _)
Compact(sanitized, started) ==
  IF sanitized = <<>> THEN <<>>
  ELSE IF Head(sanitized) = "-"
       THEN LET rest == LStripDash(Tail(sanitized))
            IN IF started /\ rest # <<>> THEN <<"-">> \o Compact(rest, TRUE)
               ELSE Compact(rest, started)
       ELSE <<Head(sanitized)>> \o Compact(Tail(sanitized), TRUE)

_symbol_id_for_domain(domain) ==
  LET lowered == Lower(domain)
      sanitized == [i \in 1..Len(lowered) |->
                      IF IsAlnum(lowered[i]) THEN lowered[i] ELSE "-"]
  IN <<"f", "a", "v", "-">> \o Compact(sanitized, FALSE)

\* Variant: every domain with a domains row counts as having an icon.
HasFavicon_AnyRow(metadata, domain) == DictHas(metadata, domain)

HasFavicon(metadata, domain) ==
  DictHas(metadata, domain) /\ Truthy(metadata[domain].favicon_data)

\* _build_sprite_symbols: one symbol per domain of the slot with icon data,
\* in the insertion order of bucket.per_domain.
RECURSIVE SpriteSymbols(_, _)
SpriteSymbols(per_domain, metadata) ==
  IF per_domain = <<>> THEN <<>>
  ELSE LET domain == Head(per_domain).domain
       IN IF ~HasFavicon(metadata, domain) THEN SpriteSymbols(Tail(per_domain), metadata)
          ELSE << [domain |-> domain,
                   symbol_id |-> _symbol_id_for_domain(domain),
                   mime_type |-> metadata[domain].favicon_type,
                   data |-> metadata[domain].favicon_data] >>
               \o SpriteSymbols(Tail(per_domain), metadata)

_build_sprite_symbols(bucket, metadata) == SpriteSymbols(bucket.per_domain, metadata)

\* _render_sprite: the svg document as the sequence of its <symbol> elements.
_render_sprite(symbols) ==
  [svg |-> [i \in 1..Len(symbols) |->
              [id |-> symbols[i].symbol_id,
               mime |-> IF Truthy(symbols[i].mime_type) THEN symbols[i].mime_type
                        ELSE <<"i", "m", "a", "g", "e", "/", "p", "n", "g">>,
               base64 |-> symbols[i].data]]]

\* ------------------------------------------------------------------------
\* Level1
\* ------------------------------------------------------------------------

\* Variant: the items sorted by domain alone.
ItemBefore_ByDomain(a, b) == ~StrLess(b.domain, a.domain)

\* Sort key of _build_level1_entry: (-count, domain).
ItemBefore(a, b) ==
  a.count > b.count \/ (a.count = b.count /\ ~StrLess(b.domain, a.domain))

RECURSIVE InsertItem(_, _)
InsertItem(item, sorted) ==
  IF sorted = <<>> THEN <<item>>
  ELSE IF ItemBefore(Head(sorted), item)
       THEN <<Head(sorted)>> \o InsertItem(item, Tail(sorted))
       ELSE <<item>> \o sorted

RECURSIVE SortedItems(_)
SortedItems(per_domain) ==
  IF per_domain = <<>> THEN <<>>
  ELSE InsertItem(per_domain[Len(per_domain)],
                  SortedItems(SubSeq(per_domain, 1, Len(per_domain) - 1)))

\* The elements of a set of texts in ascending order.
RECURSIVE Ascending(_)
Ascending(texts) ==
  IF texts = {} THEN <<>>
  ELSE LET least == CHOOSE t \in texts : \A o \in texts \ {t} : StrLess(t, o)
       IN <<least>> \o Ascending(texts \ {least})

Reverse(seq) == [i \in 1..Len(seq) |-> seq[Len(seq) + 1 - i]]

\* Iteration order of a Python set of str: it depends on the hash seed of the
\* process, which differs from run to run.
SetIteration(texts, seed) ==
  IF seed = 0 THEN Ascending(texts) ELSE Reverse(Ascending(texts))

RECURSIVE InsertText(_, _)
InsertText(text, sorted) ==
  IF sorted = <<>> THEN <<text>>
  ELSE IF StrLess(text, Head(sorted)) THEN <<text>> \o sorted
  ELSE <<Head(sorted)>> \o InsertText(text, Tail(sorted))

RECURSIVE SortedTexts(_)
SortedTexts(seq) ==
  IF seq = <<>> THEN <<>>
  ELSE InsertText(seq[Len(seq)], SortedTexts(SubSeq(seq, 1, Len(seq) - 1)))

\* Variant: list(meta.secondary_tags), without sorting.
SecondaryTagList_Unsorted(secondary_tags, seed) == SetIteration(secondary_tags, seed)

\* sorted(meta.secondary_tags)
SecondaryTagList(secondary_tags, seed) == SortedTexts(SetIteration(secondary_tags, seed))

\* _label_for_tag: the label on record, else the tag without its leading '#'s.
RECURSIVE LStripHash(_)
LStripHash(tag) == IF tag # <<>> /\ Head(tag) = "#" THEN LStripHash(Tail(tag)) ELSE tag

_label_for_tag(tag, categories) ==
  IF DictHas(categories, tag) THEN categories[tag].label ELSE LStripHash(tag)

\* The site_entry dict built for one (domain, count) item.
SiteEntry(domain, count, metadata, seed) ==
  LET hasMeta == DictHas(metadata, domain)
  IN [domain |-> domain,
      title |-> IF hasMeta /\ Truthy(metadata[domain].title)
                THEN metadata[domain].title ELSE domain,
      url |-> <<"https://">> \o domain \o <<"/">>,
      value |-> count]
     @@ (IF HasFavicon(metadata, domain)
         THEN [favicon_symbol_id |-> _symbol_id_for_domain(domain)] ELSE << >>)
     @@ (IF hasMeta /\ metadata[domain].secondary_tags # {}
         THEN [secondary_tags |-> SecondaryTagList(metadata[domain].secondary_tags, seed)]
         ELSE << >>)

\* primary = meta.primary_tag if meta else None
PrimaryOf(metadata, domain) ==
  IF DictHas(metadata, domain) THEN metadata[domain].primary_tag ELSE None

\* Variant: a group keeps the count of its first site as its value.
RECURSIVE AddToGroup_ValueNotAdded(_, _, _, _, _)
AddToGroup_ValueNotAdded(groups, tag, count, site_entry, categories) ==
  IF groups = <<>>
  THEN << [tag |-> tag, label |-> _label_for_tag(tag, categories),
           value |-> count, sites |-> <<site_entry>>] >>
  ELSE IF Head(groups).tag = tag
       THEN << [Head(groups) EXCEPT !.sites = Append(@, site_entry)] >> \o Tail(groups)
       ELSE << Head(groups) >>
              \o AddToGroup_ValueNotAdded(Tail(groups), tag, count, site_entry, categories)

\* category_groups (a dict in insertion order, kept as the sequence of its
\* values): add count and site_entry to the group of tag, creating it at the
\* end when it is new.
RECURSIVE AddToGroup(_, _, _, _, _)
AddToGroup(groups, tag, count, site_entry, categories) ==
  IF groups = <<>>
  THEN << [tag |-> tag, label |-> _label_for_tag(tag, categories),
           value |-> count, sites |-> <<site_entry>>] >>
  ELSE IF Head(groups).tag = tag
       THEN << [Head(groups) EXCEPT !.value = @ + count,
                                    !.sites = Append(@, site_entry)] >> \o Tail(groups)
       ELSE << Head(groups) >> \o AddToGroup(Tail(groups), tag, count, site_entry, categories)

\* The loop of _build_level1_entry over the sorted items.
RECURSIVE Level1Loop(_, _, _, _, _)
Level1Loop(items, metadata, categories, seed, acc) ==
  IF items = <<>> THEN acc
  ELSE LET domain == Head(items).domain
           count == Head(items).count
           primary == PrimaryOf(metadata, domain)
           site_entry == SiteEntry(domain, count, metadata, seed)
       IN Level1Loop(Tail(items), metadata, categories, seed,
            IF Truthy(primary)
            THEN [acc EXCEPT !.categories =
                               AddToGroup(@, primary, count, site_entry, categories)]
            ELSE [acc EXCEPT !.uncategorized = Append(@, site_entry)])

\* Variant: the entry without its uncategorized sites.
_build_level1_entry_DropUncategorized(bucket, metadata, categories, sprite_relpath, seed) ==
  LET built == Level1Loop(SortedItems(bucket.per_domain), metadata, categories, seed,
                          [categories |-> <<>>, uncategorized |-> <<>>])
  IN [day |-> bucket.day, hour |-> bucket.hour,
      categories |-> built.categories, uncategorized |-> <<>>]
     @@ (IF sprite_relpath # "" THEN [sprite |-> sprite_relpath] ELSE << >>)

\* Variant: without sprite the site entries get no favicon_symbol_id.
_build_level1_entry_NoSymbolWithoutSprite(bucket, metadata, categories, sprite_relpath, seed) ==
  LET used == IF sprite_relpath # "" THEN metadata
              ELSE [d \in DOMAIN metadata |-> [metadata[d] EXCEPT !.favicon_data = None]]
      built == Level1Loop(SortedItems(bucket.per_domain), used, categories, seed,
                          [categories |-> <<>>, uncategorized |-> <<>>])
  IN [day |-> bucket.day, hour |-> bucket.hour,
      categories |-> built.categories, uncategorized |-> built.uncategorized]
     @@ (IF sprite_relpath # "" THEN [sprite |-> sprite_relpath] ELSE << >>)

\* sprite_relpath "" stands for None.
_build_level1_entry(bucket, metadata, categories, sprite_relpath, seed) ==
  LET built == Level1Loop(SortedItems(bucket.per_domain), metadata, categories, seed,
                          [categories |-> <<>>, uncategorized |-> <<>>])
  IN [day |-> bucket.day, hour |-> bucket.hour,
      categories |-> built.categories, uncategorized |-> built.uncategorized]
     @@ (IF sprite_relpath # "" THEN [sprite |-> sprite_relpath] ELSE << >>)

\* ------------------------------------------------------------------------
\* write_outputs
\* ------------------------------------------------------------------------

Digit(n) == <<"0", "1", "2", "3", "4", "5", "6", "7", "8", "9">>[n + 1]

\* f"level1-{day}-{hour:02d}"
Level1Stem(day, hour) ==
  "level1-" \o Digit(day) \o "-" \o Digit(hour \div 10) \o Digit(hour % 10)

Level1Path(day, hour) == Level1Stem(day, hour) \o ".json"

\* Variant: the sprite named without its directory.
SpritePath_Flat(day, hour) == Level1Stem(day, hour) \o ".svg"

\* sprite_root / sprite_name with the default sprite_root output_dir/"sprites";
\* it is also the relative path str(Path("sprites") / sprite_name).
SpritePath(day, hour) == "sprites/" \o Level1Stem(day, hour) \o ".svg"

\* The loop of write_outputs over sorted(aggregates.items()): the files
\* written, in order.
RECURSIVE SlotWrites(_, _, _, _, _, _)
SlotWrites(keys, aggregates, metadata, categories, skip_sprites, seed) ==
  IF keys = <<>> THEN <<>>
  ELSE LET day == Head(keys)[1]
           hour == Head(keys)[2]
           bucket == aggregates[Head(keys)]
           symbols == _build_sprite_symbols(bucket, metadata)
           relative_sprite == IF ~skip_sprites THEN SpritePath(day, hour) ELSE ""
           level1 == _build_level1_entry(bucket, metadata, categories, relative_sprite, seed)
       IN (IF ~skip_sprites
           THEN << [path |-> SpritePath(day, hour), kind |-> "sprite",
                    content |-> _render_sprite(symbols)] >>
           ELSE <<>>)
          \o << [path |-> Level1Path(day, hour), kind |-> "level1", content |-> level1] >>
          \o SlotWrites(Tail(keys), aggregates, metadata, categories, skip_sprites, seed)

CountKind(writes, kind) == Cardinality({i \in 1..Len(writes) : writes[i].kind = kind})

\* open_connection(db_path, dry_run=True): the error raised, "ok" when the
\* connection is returned.
open_connection(db_exists) == IF ~db_exists THEN "FileNotFoundError" ELSE "ok"

\* Variant: write_outputs that makes the sprites directory only together with
\* its first sprite file.
write_outputs_LazySpriteDir(db_exists, visitRows, domainRows, secondaryRows, categories_file, domain_map_file, skip_sprites, timezone_name, seed) ==
  LET local_tz == timezone_name
      aggregates == aggregate_visits(visitRows, local_tz)
      loaded == load_categories(categories_file)
  IN IF open_connection(db_exists) # "ok"
     THEN [error |-> open_connection(db_exists), aggregates |-> EmptyDict,
           metadata |-> EmptyDict, dirs |-> {}, writes |-> <<>>,
           summary |-> [level0_entries |-> 0, level1_files |-> 0, sprite_files |-> 0]]
     ELSE IF loaded.error # "ok"
     THEN [error |-> loaded.error, aggregates |-> aggregates, metadata |-> EmptyDict,
           dirs |-> {}, writes |-> <<>>,
           summary |-> [level0_entries |-> 0, level1_files |-> 0, sprite_files |-> 0]]
     ELSE LET categories == loaded.value
              overrides == load_domain_overrides(domain_map_file)
              metadata == _load_domain_metadata(domainRows, secondaryRows, overrides)
              level0_data == generate_level0(aggregates)
              slot == SlotWrites(SortedKeys(DOMAIN aggregates), aggregates, metadata,
                                 categories, skip_sprites, seed)
          IN [error |-> "ok", aggregates |-> aggregates, metadata |-> metadata,
              dirs |-> {"."} \cup (IF CountKind(slot, "sprite") > 0 THEN {"sprites"} ELSE {}),
              writes |-> << [path |-> "level0.json", kind |-> "level0",
                             content |-> level0_data] >> \o slot,
              summary |-> [level0_entries |-> Len(level0_data),
                           level1_files |-> CountKind(slot, "level1"),
                           sprite_files |-> CountKind(slot, "sprite")]]

\* Variant: write_outputs that makes the output directory before it opens the
\* store and loads the configuration.
write_outputs_MkdirFirst(db_exists, visitRows, domainRows, secondaryRows, categories_file, domain_map_file, skip_sprites, timezone_name, seed) ==
  LET local_tz == timezone_name
      aggregates == aggregate_visits(visitRows, local_tz)
      loaded == load_categories(categories_file)
  IN IF open_connection(db_exists) # "ok"
     THEN [error |-> open_connection(db_exists), aggregates |-> EmptyDict,
           metadata |-> EmptyDict, dirs |-> {"."}, writes |-> <<>>,
           summary |-> [level0_entries |-> 0, level1_files |-> 0, sprite_files |-> 0]]
     ELSE IF loaded.error # "ok"
     THEN [error |-> loaded.error, aggregates |-> aggregates, metadata |-> EmptyDict,
           dirs |-> {"."}, writes |-> <<>>,
           summary |-> [level0_entries |-> 0, level1_files |-> 0, sprite_files |-> 0]]
     ELSE LET categories == loaded.value
              overrides == load_domain_overrides(domain_map_file)
              metadata == _load_domain_metadata(domainRows, secondaryRows, overrides)
              level0_data == generate_level0(aggregates)
              slot == SlotWrites(SortedKeys(DOMAIN aggregates), aggregates, metadata,
                                 categories, skip_sprites, seed)
          IN [error |-> "ok", aggregates |-> aggregates, metadata |-> metadata,
              dirs |-> {"."} \cup (IF ~skip_sprites THEN {"sprites"} ELSE {}),
              writes |-> << [path |-> "level0.json", kind |-> "level0",
                             content |-> level0_data] >> \o slot,
              summary |-> [level0_entries |-> Len(level0_data),
                           level1_files |-> CountKind(slot, "level1"),
                           sprite_files |-> CountKind(slot, "sprite")]]

\* write_outputs on a store snapshot: the error raised ("ok" when it returns),
\* the directories made, the files written in order, and the summary.
write_outputs(db_exists, visitRows, domainRows, secondaryRows, categories_file, domain_map_file, skip_sprites, timezone_name, seed) ==
  LET local_tz == timezone_name
      aggregates == aggregate_visits(visitRows, local_tz)
      loaded == load_categories(categories_file)
  IN IF open_connection(db_exists) # "ok"
     THEN [error |-> open_connection(db_exists), aggregates |-> EmptyDict,
           metadata |-> EmptyDict, dirs |-> {}, writes |-> <<>>,
           summary |-> [level0_entries |-> 0, level1_files |-> 0, sprite_files |-> 0]]
     ELSE IF loaded.error # "ok"
     THEN [error |-> loaded.error, aggregates |-> aggregates, metadata |-> EmptyDict,
           dirs |-> {}, writes |-> <<>>,
           summary |-> [level0_entries |-> 0, level1_files |-> 0, sprite_files |-> 0]]
     ELSE LET categories == loaded.value
              overrides == load_domain_overrides(domain_map_file)
              metadata == _load_domain_metadata(domainRows, secondaryRows, overrides)
              level0_data == generate_level0(aggregates)
              slot == SlotWrites(SortedKeys(DOMAIN aggregates), aggregates, metadata,
                                 categories, skip_sprites, seed)
          IN [error |-> "ok", aggregates |-> aggregates, metadata |-> metadata,
              dirs |-> {"."} \cup (IF ~skip_sprites THEN {"sprites"} ELSE {}),
              writes |-> << [path |-> "level0.json", kind |-> "level0",
                             content |-> level0_data] >> \o slot,
              summary |-> [level0_entries |-> Len(level0_data),
                           level1_files |-> CountKind(slot, "level1"),
                           sprite_files |-> CountKind(slot, "sprite")]]

\* Path.write_text for each file written, in order, on the directory contents.
RECURSIVE ApplyWrites(_, _)
ApplyWrites(dir, writes) ==
  IF writes = <<>> THEN dir
  ELSE ApplyWrites(DictSet(dir, Head(writes).path,
                           [kind |-> Head(writes).kind, content |-> Head(writes).content]),
                   Tail(writes))

\* ------------------------------------------------------------------------
\* Inputs of the model
\* ------------------------------------------------------------------------

\* Most visit rows the store holds.
MaxVisits == 3

\* timezone_name's default value in the signature of write_outputs.
DefaultTimezone == "America/New_York"

\* The timezone_name argument of a call; "" is a call that omits it.
TimezoneArgs == {"", "UTC"}

HashSeeds == {0, 1}

DomA == <<"a", ".", "t">>
\* a-t: its name differs from a.t in the punctuation only.
DomB == <<"a", "-", "t">>
DomC == <<"c", ".", "t">>
DomD == <<"d", ".", "t">>

TagNews == <<"#", "n", "e", "w", "s">>
TagLearn == <<"#", "l", "e", "a", "r", "n">>
TagTut == <<"#", "t", "u", "t">>

\* Stored timestamps "2024-06-02 01:00:00", "2024-06-02 01:45:00" (a Sunday),
\* "2024-06-03 14:00:00" (a Monday) and
\* "2024-01-07 02:00:00" (a Sunday in winter time).
TsSun0100 == <<2024, 6, 2, 1, 0, 0>>
TsSun0145 == <<2024, 6, 2, 1, 45, 0>>
TsMon1400 == <<2024, 6, 3, 14, 0, 0>>
TsJan0200 == <<2024, 1, 7, 2, 0, 0>>

\* The visit rows a loader may insert.
VisitRows ==
  { [domain |-> DomA, timestamp |-> TsSun0100],
    [domain |-> <<"A", ".", "t">>, timestamp |-> TsSun0145],
    [domain |-> DomC, timestamp |-> TsSun0100],
    [domain |-> DomB, timestamp |-> TsMon1400],
    [domain |-> DomB, timestamp |-> TsJan0200],
    [domain |-> DomD, timestamp |-> TsSun0145] }

\* The domains table: a.t with title, main_category "News " and a png icon;
\* a-t with main_category "news" and an icon without mime type; c.t with
\* main_category "learn" and no icon.  d.t has no row.
DomainRowsFixture ==
  << [domain |-> DomA, title |-> <<"A site">>,
      main_category |-> <<"N", "e", "w", "s", " ">>,
      favicon_type |-> <<"i", "m", "a", "g", "e", "/", "p", "n", "g">>,
      favicon_data |-> <<"PNG">>],
     [domain |-> DomB, title |-> None, main_category |-> <<"n", "e", "w", "s">>,
      favicon_type |-> None, favicon_data |-> <<"ICO">>],
     [domain |-> DomC, title |-> <<"C site">>,
      main_category |-> <<"l", "e", "a", "r", "n">>,
      favicon_type |-> None, favicon_data |-> None] >>

SecondaryRowsFixture ==
  { [domain |-> DomA, tag |-> <<"#", "t", "u", "t">>],
    [domain |-> DomA, tag |-> <<"N", "e", "w", "s">>],
    [domain |-> DomC, tag |-> <<" ">>],
    [domain |-> DomC, tag |-> <<"T", "u", "t">>],
    [domain |-> DomC, tag |-> <<"#", "n", "e", "w", "s">>] }

CategoryItems ==
  << [isdict |-> TRUE, tag |-> <<"n", "e", "w", "s">>, label |-> <<"News">>,
      type |-> <<"primary">>],
     [isdict |-> FALSE],
     [isdict |-> TRUE, tag |-> <<"L", "e", "a", "r", "n">>, label |-> <<"Learning">>,
      type |-> <<"primary">>],
     [isdict |-> TRUE, tag |-> <<"t", "u", "t">>, label |-> None, type |-> None] >>

\* categories.yaml: with primary entries; with no entry of type primary;
\* "categories: not-a-list"; a top level that is no mapping; no file.
CategoryFiles ==
  { [exists |-> TRUE, payload |-> "dict", islist |-> TRUE, items |-> CategoryItems],
    [exists |-> TRUE, payload |-> "list", islist |-> FALSE, items |-> <<>>],
    [exists |-> FALSE, payload |-> "null", islist |-> FALSE, items |-> <<>>],
    [exists |-> TRUE, payload |-> "dict", islist |-> TRUE,
     items |-> << [isdict |-> TRUE, tag |-> <<"n", "e", "w", "s">>, label |-> <<"News">>,
                   type |-> None] >>],
    [exists |-> TRUE, payload |-> "dict", islist |-> FALSE, items |-> <<>>] }

\* domain-category-map.yaml: absent; a file whose top level is a list; or a
\* file with an entry for a-t that gives a primary and a secondary tag, an
\* entry for c.t with secondary tags only, and an entry without domain.
DomainMapFiles ==
  { [exists |-> FALSE, payload |-> "null", islist |-> FALSE, items |-> <<>>],
    [exists |-> TRUE, payload |-> "list", islist |-> FALSE, items |-> <<>>],
    [exists |-> TRUE, payload |-> "dict", islist |-> TRUE,
     items |-> << [isdict |-> TRUE, domain |-> <<"A", "-", "t">>,
                   primary |-> <<"#", "L", "e", "a", "r", "n">>,
                   secondary |-> << <<"#", "t", "u", "t">> >>],
                  [isdict |-> TRUE, domain |-> DomC, primary |-> None,
                   secondary |-> << <<"t", "u", "t">>, <<"#", "a">> >>],
                  [isdict |-> TRUE, domain |-> None, primary |-> TagNews,
                   secondary |-> <<>>] >>] }

\* ------------------------------------------------------------------------
\* State
\* ------------------------------------------------------------------------

VARIABLES
  dbExists,        \* the store file exists
  visits,          \* the rows (domain, timestamp) of the visits table
  domains,         \* the domains table, in rowid order
  secondary,       \* the secondary_categories rows
  categoriesFile,  \* categories.yaml
  domainMapFile,   \* domain-category-map.yaml
  dirs,            \* directories that exist under (and including) output_dir
  files,           \* path -> file, for the files under output_dir
  last,            \* the latest call of write_outputs
  call,            \* the latest application of a library function
  store,           \* history.db as the loaders and find-favicons see it
  run              \* the latest run of process_records or refresh_favicons

vars == <<dbExists, visits, domains, secondary, categoriesFile, domainMapFile, dirs, files, last, call, store, run>>

\* The variables of the dataset generation, and those of the other scripts.
datasetVars == <<dbExists, visits, domains, secondary, categoriesFile, domainMapFile, dirs, files, last>>

scriptVars == <<call, store, run>>

\* Nothing was applied, loaded or fetched.
NoCall == [fn |-> "none"]

\* history.db is missing: no file, so no row in either table.  visits maps a
\* row (domain, timestamp) to the number of rows of the table that hold it,
\* domains maps a domain to its row.
EmptyStore == [exists |-> FALSE, visits |-> EmptyDict, domains |-> EmptyDict]

NoScriptRun == [script |-> "none"]


\* The value of last before the first call.
NoRun ==
  [error |-> "none", visits |-> {},
   tzArg |-> "", timezone |-> "", skip |-> FALSE,
   aggregates |-> EmptyDict, metadata |-> EmptyDict, dirs |-> {}, writes |-> <<>>,
   summary |-> [level0_entries |-> 0, level1_files |-> 0, sprite_files |-> 0],
   repeat |-> FALSE, before |-> <<>>]

\* The store is either missing, or initialised with the domains and the
\* secondary_categories rows and no visit yet.
Init ==
  /\ dbExists \in BOOLEAN
  /\ visits = {}
  /\ domains = IF dbExists THEN DomainRowsFixture ELSE <<>>
  /\ secondary = IF dbExists THEN SecondaryRowsFixture ELSE {}
  /\ categoriesFile \in CategoryFiles
  /\ domainMapFile \in DomainMapFiles
  /\ dirs = {}
  /\ files = EmptyDict
  /\ last = NoRun
  /\ call = NoCall
  /\ store = EmptyStore
  /\ run = NoScriptRun

\* A loader stores a visit (HistoryWriter._insert_visit_if_new): a row that is
\* already there is not inserted again.  The history is loaded into an
\* initialised store, before the datasets are generated.
InsertVisit(row) ==
  /\ dbExists
  /\ last.error = "none"
  /\ Cardinality(visits) < MaxVisits
  /\ row \notin visits
  /\ visits' = visits \cup {row}
  /\ UNCHANGED <<dbExists, domains, secondary, categoriesFile, domainMapFile, dirs, files, last>>
  /\ UNCHANGED scriptVars

\* One call of write_outputs on the current store and configuration.
WriteOutputs(tzArg, skip_sprites, seed) ==
  /\ LET timezone_name == IF tzArg = "" THEN DefaultTimezone ELSE tzArg
         repeat == /\ last.error = "ok"
                   /\ last.visits = visits
                   /\ last.tzArg = tzArg
                   /\ last.skip = skip_sprites
     IN \E res \in {write_outputs(dbExists, visits, domains, secondary, categoriesFile,
                                  domainMapFile, skip_sprites, timezone_name, seed)} :
        /\ files' = ApplyWrites(files, res.writes)
        /\ dirs' = dirs \cup res.dirs
        /\ last' = [error |-> res.error,
                    visits |-> visits,
                    tzArg |-> tzArg, timezone |-> timezone_name, skip |-> skip_sprites,
                    aggregates |-> res.aggregates, metadata |-> res.metadata,
                    dirs |-> res.dirs, writes |-> res.writes, summary |-> res.summary,
                    repeat |-> repeat,
                    before |-> IF repeat THEN last.writes ELSE <<>>]
  /\ UNCHANGED <<dbExists, visits, domains, secondary, categoriesFile, domainMapFile>>
  /\ UNCHANGED scriptVars

Next ==
  \/ \E row \in VisitRows : InsertVisit(row)
  \/ \E tzArg \in TimezoneArgs, skip_sprites \in BOOLEAN, seed \in HashSeeds :
       WriteOutputs(tzArg, skip_sprites, seed)

Spec == Init /\ [][Next]_vars

\* The dataset generation has not started: the state of its variables in the
\* specifications of the other scripts.
DatasetIdle ==
  /\ dbExists = FALSE
  /\ visits = {}
  /\ domains = <<>>
  /\ secondary = {}
  /\ categoriesFile = None
  /\ domainMapFile = None
  /\ dirs = {}
  /\ files = EmptyDict
  /\ last = NoRun

\* ------------------------------------------------------------------------
\* Reading the results of the latest run
\* ------------------------------------------------------------------------

Ran == last.error = "ok"

Level0File == files["level0.json"].content

Level1Entry(key) == files[Level1Path(key[1], key[2])].content

RECURSIVE SumField(_, _)
SumField(seq, field) ==
  IF seq = <<>> THEN 0 ELSE Head(seq)[field] + SumField(Tail(seq), field)

RECURSIVE ConcatSites(_)
ConcatSites(groups) ==
  IF groups = <<>> THEN <<>> ELSE Head(groups).sites \o ConcatSites(Tail(groups))

\* Every site entry of a level1 entry: those of the groups, then the uncategorized.
AllSites(entry) == ConcatSites(entry.categories) \o entry.uncategorized

DomainsOf(sites) == {sites[i].domain : i \in 1..Len(sites)}

\* ------------------------------------------------------------------------
\* Claims
\* ------------------------------------------------------------------------

\* C1: after write_outputs the values of the level0 entries sum to the number
\* of visit rows of the store: no visit is lost and none is counted twice.
C1_NoVisitLost ==
  Ran => SumField(Level0File, "value") = Cardinality(last.visits)

\* A run over three visits, two of them in one slot.
C1_Witness ==
  /\ Ran
  /\ Cardinality(last.visits) = 3
  /\ Len(Level0File) = 2
  /\ \E i \in 1..Len(Level0File) : Level0File[i].value = 2

\* C2: the primary tag of a domain is the override's primary when the override
\* supplies one, otherwise (no override, or an override entry without primary)
\* the stored main_category, otherwise absent.
C2_PrimaryPrecedence ==
  Ran =>
    \A i \in 1..Len(domains) :
      LET name == normalize_domain(domains[i].domain)
          overrides == load_domain_overrides(domainMapFile)
          supplied == DictHas(overrides, name) /\ overrides[name].primary # None
          expected == IF supplied THEN overrides[name].primary
                      ELSE normalize_tag(domains[i].main_category)
      IN last.metadata[name].primary_tag = expected

\* C3: in every level1 entry each domain of the slot appears exactly once, in
\* the sites of one category group or in uncategorized; a domain without
\* resolvable primary tag is in uncategorized, and no group is made for it.
C3_Resolvable(domain) ==
  DictHas(last.metadata, domain) /\ Truthy(last.metadata[domain].primary_tag)

C3_EveryDomainOnce ==
  Ran =>
    \A key \in DOMAIN last.aggregates :
      LET entry == Level1Entry(key)
          per_domain == last.aggregates[key].per_domain
          sites == AllSites(entry)
      IN /\ Len(sites) = Len(per_domain)
         /\ \A j \in 1..Len(per_domain) :
              /\ Cardinality({i \in 1..Len(sites) :
                                sites[i].domain = per_domain[j].domain}) = 1
              /\ ~C3_Resolvable(per_domain[j].domain)
                   => per_domain[j].domain \in DomainsOf(entry.uncategorized)
         /\ \A g \in 1..Len(entry.categories) :
              /\ entry.categories[g].tag # None
              /\ entry.categories[g].sites # <<>>
              /\ \A d \in DomainsOf(entry.categories[g].sites) :
                   /\ C3_Resolvable(d)
                   /\ last.metadata[d].primary_tag = entry.categories[g].tag
         /\ \A d \in DomainsOf(entry.uncategorized) : ~C3_Resolvable(d)

\* A slot with a category group, and with the domain without domains row and
\* a domain whose row has no primary tag among its uncategorized sites.
C3_Witness ==
  /\ Ran
  /\ \E key \in DOMAIN last.aggregates :
       /\ Level1Entry(key).categories # <<>>
       /\ \E d \in DomainsOf(Level1Entry(key).uncategorized) : ~DictHas(last.metadata, d)
  /\ \E key \in DOMAIN last.aggregates :
       \E d \in DomainsOf(Level1Entry(key).uncategorized) : DictHas(last.metadata, d)

\* C4: loading the category definitions fails whenever the taxonomy has no
\* entry of type primary, so write_outputs never produces output from such a
\* taxonomy.
C4_HasPrimary(file) ==
  \E i \in 1..Len(file.items) :
    file.items[i].isdict /\ file.items[i].type = <<"primary">>

C5_StoredKey(row) ==
  LET ts == Strptime(row.timestamp)
  IN <<(Weekday(UtcMinutes(ts)) + 1) % 7, ts.h>>

C5_DefaultBucketsAtStoredTime ==
  (Ran /\ last.tzArg = "") =>
    \A row \in last.visits :
      LET key == C5_StoredKey(row)
          value == Cardinality({o \in last.visits : C5_StoredKey(o) = key})
      IN /\ \E i \in 1..Len(last.writes) :
              last.writes[i].path = Level1Path(key[1], key[2])
         /\ \E i \in 1..Len(Level0File) :
              /\ Level0File[i].day = key[1]
              /\ Level0File[i].hour = key[2]
              /\ Level0File[i].value = value

\* C6: every visit is counted in the slot (day, hour) of its UTC timestamp
\* converted to the configured timezone, day 0..6 with Sunday 0 and hour
\* 0..23; visits of the same local weekday and hour share a slot, also when
\* their UTC date is not the local date.
\* The local weekday and hour of the stored timestamps, from the calendar:
\* 2024-06-02 and 2024-01-07 are Sundays; New York is at UTC-4 in June and at
\* UTC-5 in January.
C6_LocalSlot(timestamp, zone) ==
  CASE timestamp = TsSun0100 -> IF zone = "UTC" THEN <<0, 1>> ELSE <<6, 21>>
    [] timestamp = TsSun0145 -> IF zone = "UTC" THEN <<0, 1>> ELSE <<6, 21>>
    [] timestamp = TsMon1400 -> IF zone = "UTC" THEN <<1, 14>> ELSE <<1, 10>>
    [] timestamp = TsJan0200 -> IF zone = "UTC" THEN <<0, 2>> ELSE <<6, 21>>

C6_CountedInLocalSlot ==
  Ran =>
    /\ DOMAIN last.aggregates \subseteq (0..6) \X (0..23)
    /\ DOMAIN last.aggregates =
         {C6_LocalSlot(row.timestamp, last.timezone) : row \in last.visits}
    /\ \A key \in DOMAIN last.aggregates :
         /\ last.aggregates[key].day = key[1]
         /\ last.aggregates[key].hour = key[2]
         /\ last.aggregates[key].total =
              Cardinality({row \in last.visits :
                             C6_LocalSlot(row.timestamp, last.timezone) = key})
    /\ \A i \in 1..Len(Level0File) :
         /\ <<Level0File[i].day, Level0File[i].hour>> \in DOMAIN last.aggregates
         /\ Level0File[i].value =
              last.aggregates[<<Level0File[i].day, Level0File[i].hour>>].total

\* A New York run in which a June visit and a January visit, both on a UTC
\* Sunday, are counted together in the Saturday 21h slot.
C6_Witness ==
  /\ Ran
  /\ last.timezone = "America/New_York"
  /\ \E a, b \in last.visits : a.timestamp = TsSun0100 /\ b.timestamp = TsJan0200
  /\ DictHas(last.aggregates, <<6, 21>>)
  /\ last.aggregates[<<6, 21>>].total >= 2

\* C7: every level0 entry has 0 <= size <= 100, size is total / max total *
\* 100 rounded to an integer, every entry whose value is the maximum has size
\* 100, and with no slot level0 is empty.
C7_MaxValue == 
  CHOOSE m \in {Level0File[i].value : i \in 1..Len(Level0File)} :
    \A i \in 1..Len(Level0File) : Level0File[i].value <= m

C7_Abs(n) == IF n < 0 THEN -n ELSE n

C7_SizeInRange ==
  Ran =>
    /\ last.visits = {} => Level0File = <<>>
    /\ \A i \in 1..Len(Level0File) :
         /\ Level0File[i].size \in 0..100
         /\ Level0File[i].value = C7_MaxValue => Level0File[i].size = 100
         /\ 2 * C7_Abs(Level0File[i].size * C7_MaxValue - 100 * Level0File[i].value)
              <= C7_MaxValue

\* A slot of two visits and a slot of one: sizes 100 and 50.
C7_Witness ==
  /\ Ran
  /\ \E i, j \in 1..Len(Level0File) :
       /\ Level0File[i].value = 2 /\ Level0File[i].size = 100
       /\ Level0File[j].value = 1 /\ Level0File[j].size = 50

\* C8: after aggregate_visits has processed the rows, and after every single
\* row, the total of each slot is the sum of its per-domain counts and is at
\* least 1.
C8_Consistent(aggregates) ==
  \A key \in DOMAIN aggregates :
    /\ aggregates[key].total = SumField(aggregates[key].per_domain, "count")
    /\ aggregates[key].total >= 1
    /\ \A j \in 1..Len(aggregates[key].per_domain) :
         aggregates[key].per_domain[j].count >= 1

C8_TotalIsSumOfPerDomain ==
  last.error # "none" =>
    /\ C8_Consistent(last.aggregates)
    /\ LET ordered == OrderByTimestamp(last.visits)
       IN \A n \in 0..Len(ordered) :
            C8_Consistent(AggregatePrefix(ordered, n, last.timezone))

\* A slot of three visits: two of one domain and one of another.
C8_Witness ==
  /\ last.error # "none"
  /\ \E key \in DOMAIN last.aggregates :
       /\ last.aggregates[key].total = 3
       /\ Len(last.aggregates[key].per_domain) = 2

\* C9: after a run the level1 files and the sprite files of the output
\* directory are exactly those of the populated slots of that run, whatever
\* earlier runs wrote there.
C9_FilesOfKind(kind) == {path \in DOMAIN files : files[path].kind = kind}

C9_OnlyPopulatedSlotsOnDisk ==
  Ran =>
    /\ C9_FilesOfKind("level1") =
         {Level1Path(key[1], key[2]) : key \in DOMAIN last.aggregates}
    /\ C9_FilesOfKind("sprite") \subseteq
         {SpritePath(key[1], key[2]) : key \in DOMAIN last.aggregates}

\* C10: a second run of write_outputs on the unchanged store, taxonomy and
\* overrides, with the same arguments, writes the same files with the same
\* contents, in the same order, as the first.
C10_SecondRunIdentical ==
  (Ran /\ last.repeat) => last.before = last.writes

\* A repeated run that wrote a level1 file with a site of two secondary tags
\* and a sprite.
C10_Witness ==
  /\ Ran
  /\ last.repeat
  /\ \E i \in 1..Len(last.writes) : last.writes[i].kind = "sprite"
  /\ \E i \in 1..Len(last.writes) :
       /\ last.writes[i].kind = "level1"
       /\ \E j \in 1..Len(AllSites(last.writes[i].content)) :
            /\ "secondary_tags" \in DOMAIN AllSites(last.writes[i].content)[j]
            /\ Len(AllSites(last.writes[i].content)[j].secondary_tags) = 2

\* The sprite document written for a slot: the sequence of its symbols.
SpriteFile(key) == files[SpritePath(key[1], key[2])].content.svg

\* The site entries of a sequence that carry favicon_symbol_id.
WithSymbol(sites) ==
  {i \in 1..Len(sites) : "favicon_symbol_id" \in DOMAIN sites[i]}

\* C11: distinct domains of one slot get distinct symbol identifiers: no two
\* symbols of a slot's sprite document share an id, and no two sites of the
\* slot's level1 entry share a favicon_symbol_id.
C11_SymbolIdsDistinct ==
  (Ran /\ ~last.skip) =>
    \A key \in DOMAIN last.aggregates :
      /\ \A i, j \in 1..Len(SpriteFile(key)) :
           i # j => SpriteFile(key)[i].id # SpriteFile(key)[j].id
      /\ LET sites == AllSites(Level1Entry(key))
         IN \A i, j \in WithSymbol(sites) :
              sites[i].domain # sites[j].domain
                => sites[i].favicon_symbol_id # sites[j].favicon_symbol_id

\* C12: when sprites are not skipped, a site entry carries favicon_symbol_id
\* exactly when its domain has non-empty stored icon bytes, the ids carried by
\* the sites of a level1 entry are the ids of the symbols of the slot's sprite
\* document, and a slot without any icon still has a sprite document, with no
\* symbol.
C12_HasStoredIcon(domain) ==
  \E i \in 1..Len(domains) :
    /\ normalize_domain(domains[i].domain) = domain
    /\ domains[i].favicon_data # None
    /\ domains[i].favicon_data # <<>>

C12_SymbolIffIcon ==
  (Ran /\ ~last.skip) =>
    \A key \in DOMAIN last.aggregates :
      LET sites == AllSites(Level1Entry(key))
      IN /\ SpritePath(key[1], key[2]) \in DOMAIN files
         /\ \A i \in 1..Len(sites) :
              i \in WithSymbol(sites) <=> C12_HasStoredIcon(sites[i].domain)
         /\ {sites[i].favicon_symbol_id : i \in WithSymbol(sites)}
              = {SpriteFile(key)[j].id : j \in 1..Len(SpriteFile(key))}
         /\ (\A i \in 1..Len(sites) : ~C12_HasStoredIcon(sites[i].domain))
              => SpriteFile(key) = <<>>

\* A run with a slot whose sites have no icon and whose sprite document has
\* no symbol, and a slot whose sprite document has one.
C12_Witness ==
  /\ Ran
  /\ ~last.skip
  /\ \E key \in DOMAIN last.aggregates :
       /\ SpriteFile(key) = <<>>
       /\ Len(AllSites(Level1Entry(key))) = 2
  /\ \E key \in DOMAIN last.aggregates : SpriteFile(key) # <<>>

\* C13: with skip_sprites no sprites directory is made, no sprite file is
\* written, the summary has sprite_files = 0 and no level1 entry has a
\* `sprite` key; without it every level1 entry names the sprite file of its
\* own slot, sprites/level1-<day>-<two-digit hour>.svg, written before it.
C13_SpriteName(day, hour) ==
  "sprites/level1-" \o Digit(day) \o "-"
    \o (IF hour < 10 THEN "0" ELSE Digit(hour \div 10)) \o Digit(hour % 10) \o ".svg"

C14_EmptyStore ==
  (Ran /\ last.visits = {}) =>
    /\ Level0File = <<>>
    /\ last.summary = [level0_entries |-> 0, level1_files |-> 0, sprite_files |-> 0]
    /\ Len(last.writes) = 1
    /\ DOMAIN files = {"level0.json"}
    /\ last.dirs = IF last.skip THEN {"."} ELSE {".", "sprites"}
    /\ last.dirs \subseteq dirs

\* A run without skip_sprites on the empty store.
C14_Witness ==
  /\ Ran
  /\ last.visits = {}
  /\ ~last.skip
  /\ "sprites" \in dirs
  /\ DOMAIN files = {"level0.json"}

\* C15: when the taxonomy is malformed (top level no mapping, `categories`
\* missing or no list) or the store file does not exist, write_outputs raises
\* an error and has written nothing: no output directory, no file.
C15_Malformed ==
  \/ ~dbExists
  \/ categoriesFile.exists /\ categoriesFile.payload # "dict"
  \/ categoriesFile.exists /\ ~categoriesFile.islist

C15_FailsAndWritesNothing ==
  C15_Malformed =>
    /\ last.error \in {"none", "ValueError", "FileNotFoundError"}
    /\ ~dbExists /\ last.error # "none" => last.error = "FileNotFoundError"
    /\ dbExists /\ last.error # "none" => last.error = "ValueError"
    /\ last.writes = <<>>
    /\ last.dirs = {}
    /\ dirs = {}
    /\ files = EmptyDict

\* A failed run on a store with visits and a malformed taxonomy.
C15_Witness ==
  /\ last.error = "ValueError"
  /\ Cardinality(last.visits) >= 2
  /\ categoriesFile.payload = "dict"
  /\ ~categoriesFile.islist

\* C16: an override file whose top level is no mapping is a fatal error that
\* aborts write_outputs; an override entry without domain is skipped, and the
\* other entries are loaded.
C16_EntryDomains(file) ==
  {Lower(file.items[i].domain) :
     i \in {j \in 1..Len(file.items) :
              /\ file.items[j].isdict
              /\ file.items[j].domain # None
              /\ file.items[j].domain # <<>>}}

C16_MalformedOverridesAbort ==
  last.error # "none" =>
    /\ (domainMapFile.exists /\ domainMapFile.payload # "dict") => ~Ran
    /\ (domainMapFile.exists /\ domainMapFile.payload = "dict" /\ domainMapFile.islist)
         => DOMAIN load_domain_overrides(domainMapFile) = C16_EntryDomains(domainMapFile)

\* C17: the secondary tags of a domain are the union of its stored
\* secondary_categories tags and the secondary tags of its override entry,
\* all in normalized form; a site entry carries secondary_tags only when the
\* union is not empty, and lists it in ascending order without duplicates.
C17_Stored(domain) ==
  {normalize_tag(row.tag) :
     row \in {r \in secondary : normalize_domain(r.domain) = domain}} \ {None}

C17_Override(domain) ==
  IF domainMapFile.exists /\ domainMapFile.payload = "dict" /\ domainMapFile.islist
  THEN UNION {{normalize_tag(domainMapFile.items[i].secondary[j]) :
                 j \in 1..Len(domainMapFile.items[i].secondary)} :
              i \in {k \in 1..Len(domainMapFile.items) :
                       /\ domainMapFile.items[k].isdict
                       /\ domainMapFile.items[k].domain # None
                       /\ Lower(domainMapFile.items[k].domain) = domain}} \ {None}
  ELSE {}

C17_Union(domain) == C17_Stored(domain) \cup C17_Override(domain)

C17_SecondaryIsUnion ==
  Ran =>
    /\ \A name \in DOMAIN last.metadata :
         /\ last.metadata[name].secondary_tags = C17_Union(name)
         /\ \A tag \in C17_Union(name) : Head(tag) = "#" /\ Lower(tag) = tag
    /\ \A key \in DOMAIN last.aggregates :
         LET sites == AllSites(Level1Entry(key))
         IN \A i \in 1..Len(sites) :
              IF "secondary_tags" \in DOMAIN sites[i]
              THEN LET tags == sites[i].secondary_tags
                   IN /\ tags # <<>>
                      /\ {tags[j] : j \in 1..Len(tags)} = C17_Union(sites[i].domain)
                      /\ \A j \in 1..(Len(tags) - 1) : StrLess(tags[j], tags[j + 1])
              ELSE DictHas(last.metadata, sites[i].domain)
                     => C17_Union(sites[i].domain) = {}

\* c.t, with the stored tags #tut and #news and the override tags #tut and #a,
\* is listed with #a, #news, #tut; a site without secondary tag is next to it.
C17_Witness ==
  /\ Ran
  /\ \E key \in DOMAIN last.aggregates :
       LET sites == AllSites(Level1Entry(key))
       IN /\ \E i \in 1..Len(sites) :
               /\ sites[i].domain = DomC
               /\ "secondary_tags" \in DOMAIN sites[i]
               /\ sites[i].secondary_tags = << <<"#", "a">>, TagNews, TagTut >>
          /\ \E i \in 1..Len(sites) : "secondary_tags" \notin DOMAIN sites[i]

\* C18: in every level1 entry the sites of each category group, and the
\* uncategorized sites, are ordered by visit count descending, ties by domain
\* name ascending; the groups are in the order of their first sites in that
\* ordering.
C18_SiteBefore(a, b) ==
  a.value > b.value \/ (a.value = b.value /\ StrLess(a.domain, b.domain))

C18_Ordered(sites) ==
  \A i \in 1..(Len(sites) - 1) : C18_SiteBefore(sites[i], sites[i + 1])

C18_SitesAndGroupsOrdered ==
  Ran =>
    \A key \in DOMAIN last.aggregates :
      LET entry == Level1Entry(key)
      IN /\ C18_Ordered(entry.uncategorized)
         /\ \A g \in 1..Len(entry.categories) : C18_Ordered(entry.categories[g].sites)
         /\ \A g \in 1..(Len(entry.categories) - 1) :
              C18_SiteBefore(entry.categories[g].sites[1],
                             entry.categories[g + 1].sites[1])

\* A group in which a.t, with two visits, precedes a-t, with one, although
\* a-t is the lesser name.
C18_Witness ==
  /\ Ran
  /\ \E key \in DOMAIN last.aggregates :
       \E g \in 1..Len(Level1Entry(key).categories) :
         LET sites == Level1Entry(key).categories[g].sites
         IN /\ Len(sites) = 2
            /\ sites[1].domain = DomA /\ sites[1].value = 2
            /\ sites[2].domain = DomB /\ sites[2].value = 1

\* C19: level0 has exactly one entry for every slot with a visit and none for
\* any other slot, in ascending order of (day, hour); as many level1 files are
\* written as level0 has entries, one for each of them.
C19_Populated ==
  {C6_LocalSlot(row.timestamp, last.timezone) : row \in last.visits}

C19_OnlyPopulatedSlots ==
  Ran =>
    /\ {<<Level0File[i].day, Level0File[i].hour>> : i \in 1..Len(Level0File)}
         = C19_Populated
    /\ Len(Level0File) = Cardinality(C19_Populated)
    /\ \A i \in 1..Len(Level0File) : Level0File[i].value >= 1
    /\ \A i \in 1..(Len(Level0File) - 1) :
         \/ Level0File[i].day < Level0File[i + 1].day
         \/ /\ Level0File[i].day = Level0File[i + 1].day
            /\ Level0File[i].hour < Level0File[i + 1].hour
    /\ last.summary.level0_entries = Len(Level0File)
    /\ last.summary.level1_files = Len(Level0File)
    /\ {last.writes[i].path : i \in {j \in 1..Len(last.writes) :
                                       last.writes[j].kind = "level1"}}
         = {Level1Path(Level0File[i].day, Level0File[i].hour) : i \in 1..Len(Level0File)}

\* A UTC run over visits in three slots: Sunday 1h, Sunday 2h, Monday 14h.
C19_Witness ==
  /\ Ran
  /\ Len(Level0File) = 3
  /\ Level0File[1].day = 0 /\ Level0File[1].hour = 1
  /\ Level0File[2].day = 0 /\ Level0File[2].hour = 2
  /\ Level0File[3].day = 1 /\ Level0File[3].hour = 14
  /\ last.summary.level1_files = 3

\* C20: in every level1 entry the value of each category group is the sum of
\* the values of its sites, and the group values and the values of the
\* uncategorized sites add up to the value of the slot in level0.
C20_ValuesAddUp ==
  Ran =>
    \A i \in 1..Len(Level0File) :
      LET entry == Level1Entry(<<Level0File[i].day, Level0File[i].hour>>)
      IN /\ \A g \in 1..Len(entry.categories) :
              entry.categories[g].value = SumField(entry.categories[g].sites, "value")
         /\ SumField(entry.categories, "value") + SumField(entry.uncategorized, "value")
              = Level0File[i].value

\* A slot of three visits: a group of two sites and an uncategorized site.
C20_Witness ==
  /\ Ran
  /\ \E i \in 1..Len(Level0File) :
       LET entry == Level1Entry(<<Level0File[i].day, Level0File[i].hour>>)
       IN /\ Level0File[i].value = 3
          /\ \E g \in 1..Len(entry.categories) :
               /\ Len(entry.categories[g].sites) = 2
               /\ entry.categories[g].value = 2
          /\ Len(entry.uncategorized) = 1

\* ------------------------------------------------------------------------
\* lib.utils.normalize_tag and the aggregator's normalize_tag, applied to
\* their own results
\* ------------------------------------------------------------------------

\* normalize_tag of lib.utils: strip, lowercase, drop one leading '#'; an
\* empty result is None.
utils_normalize_tag(tag) ==
  IF tag = None THEN None
  ELSE LET stripped == Lower(Strip(tag))
           normalized == IF stripped # <<>> /\ Head(stripped) = "#"
                           THEN Tail(stripped) ELSE stripped
       IN IF normalized = <<>> THEN None ELSE normalized

MaxTagLen == 3

MaxApplications == 2

TagAlphabet == {" ", "#", "a", "A"}

\* None and every text over the alphabet up to the length bound.
TagInputs == {None} \cup UNION { [1..n -> TagAlphabet] : n \in 0..MaxTagLen }

InitNormalizeTag ==
  /\ DatasetIdle
  /\ store = EmptyStore
  /\ run = NoScriptRun
  /\ \E tag \in TagInputs :
       call = [fn |-> "normalize_tag", raw |-> tag, aggregator |-> <<>>, utils |-> <<>>]

\* Each function is applied to the raw tag first, then to its own result.
NormalizeTag ==
  /\ call.fn = "normalize_tag"
  /\ Len(call.aggregator) < MaxApplications
  /\ LET n == Len(call.aggregator)
         prevAggregator == IF n = 0 THEN call.raw ELSE call.aggregator[n]
         prevUtils == IF n = 0 THEN call.raw ELSE call.utils[n]
     IN call' = [call EXCEPT !.aggregator = Append(@, normalize_tag(prevAggregator)),
                             !.utils = Append(@, utils_normalize_tag(prevUtils))]
  /\ UNCHANGED <<store, run>>
  /\ UNCHANGED datasetVars

SpecNormalizeTag == InitNormalizeTag /\ [][NormalizeTag]_vars

\* C21: both versions of normalize_tag are idempotent: applied to its own
\* result each returns that result unchanged, for every tag; and a tag that is
\* empty or only whitespace normalizes to None in both.
C21_NormalizeTagIdempotent ==
  (call.fn = "normalize_tag" /\ Len(call.aggregator) >= 2) =>
    /\ call.aggregator[2] = call.aggregator[1]
    /\ call.utils[2] = call.utils[1]
    /\ (call.raw # None /\ Strip(call.raw) = <<>>) =>
         (call.aggregator[1] = None /\ call.utils[1] = None)

\* The aggregator's version alone is idempotent.
C21_AggregatorIdempotent ==
  (call.fn = "normalize_tag" /\ Len(call.aggregator) >= 2) =>
    call.aggregator[2] = call.aggregator[1]

\* ------------------------------------------------------------------------
\* lib.history_db: the blocklist, HistoryWriter and process_records
\* ------------------------------------------------------------------------

\* str.split(sep) for a one-character separator.
RECURSIVE Split(_, _)
Split(s, sep) ==
  IF \A i \in 1..Len(s) : s[i] # sep THEN <<s>>
  ELSE LET k == CHOOSE i \in 1..Len(s) : s[i] = sep /\ \A j \in 1..(i - 1) : s[j] # sep
       IN <<SubSeq(s, 1, k - 1)>> \o Split(SubSeq(s, k + 1, Len(s)), sep)

\* sep.join(parts)
RECURSIVE Join(_, _)
Join(parts, sep) ==
  IF parts = <<>> THEN <<>>
  ELSE IF Len(parts) = 1 THEN parts[1]
  ELSE parts[1] \o <<sep>> \o Join(Tail(parts), sep)

\* should_skip_blocklisted: the name and each of its parent names but the
\* last label are looked up, for idx in range(len(parts) - 1).
should_skip_blocklisted(domain, blocklist) ==
  IF blocklist = {} THEN FALSE
  ELSE LET parts == Split(domain, ".")
       IN \E idx \in 0..(Len(parts) - 2) :
            Join(SubSeq(parts, idx + 1, Len(parts)), ".") \in blocklist

\* The row INSERTed by _ensure_domain.
NewDomainRow(title) ==
  [title |-> title, num_visits |-> 0, checked |-> 0, check_timestamp |-> None,
   favicon_type |-> None, favicon_data |-> None]

\* HistoryWriter._ensure_domain
_ensure_domain(st, domain, title) ==
  IF ~DictHas(st.domains, domain)
  THEN [st EXCEPT !.domains = DictSet(@, domain, NewDomainRow(title))]
  ELSE LET row == st.domains[domain]
           has_title == row.title # None /\ Strip(row.title) # <<>>
       IN IF Truthy(title) /\ ~has_title
          THEN [st EXCEPT !.domains = DictSet(@, domain, [row EXCEPT !.title = title])]
          ELSE st

\* The number of rows of the visits table with this domain and timestamp.
VisitRowCount(st, domain, timestamp) ==
  IF DictHas(st.visits, <<domain, timestamp>>) THEN st.visits[<<domain, timestamp>>] ELSE 0

\* Variant: the visit row is inserted without looking for an existing one.
_insert_visit_if_new_NoLookup(st, domain, timestamp) ==
  IF timestamp = None
  THEN [store |-> st, inserted |-> FALSE, raised |-> TRUE]
  ELSE [store |-> [st EXCEPT
                     !.visits = DictSet(@, <<domain, timestamp>>,
                                        VisitRowCount(st, domain, timestamp) + 1),
                     !.domains = DictSet(@, domain,
                                         [@[domain] EXCEPT !.num_visits = @ + 1])],
        inserted |-> TRUE, raised |-> FALSE]

\* HistoryWriter._insert_visit_if_new.  A NULL timestamp matches no row in the
\* SELECT and violates NOT NULL in the INSERT, which raises.
_insert_visit_if_new(st, domain, timestamp) ==
  IF timestamp # None /\ VisitRowCount(st, domain, timestamp) > 0
  THEN [store |-> st, inserted |-> FALSE, raised |-> FALSE]
  ELSE IF timestamp = None
  THEN [store |-> st, inserted |-> FALSE, raised |-> TRUE]
  ELSE [store |-> [st EXCEPT
                     !.visits = DictSet(@, <<domain, timestamp>>, 1),
                     !.domains = DictSet(@, domain,
                                         [@[domain] EXCEPT !.num_visits = @ + 1])],
        inserted |-> TRUE, raised |-> FALSE]

\* Variant: record_visit that writes also in a dry run.
record_visit_WritesInDryRun(st, record, dry_run) ==
  LET ensured == _ensure_domain(st, record.domain, record.title)
      res == _insert_visit_if_new(ensured, record.domain, record.timestamp)
  IN IF res.raised THEN [store |-> st, inserted |-> FALSE, raised |-> TRUE] ELSE res

\* HistoryWriter.record_visit: nothing in a dry run; else both statements in
\* one transaction, rolled back when one of them raises.
record_visit(st, record, dry_run) ==
  IF dry_run THEN [store |-> st, inserted |-> FALSE, raised |-> FALSE]
  ELSE LET ensured == _ensure_domain(st, record.domain, record.title)
           res == _insert_visit_if_new(ensured, record.domain, record.timestamp)
       IN IF res.raised THEN [store |-> st, inserted |-> FALSE, raised |-> TRUE] ELSE res

\* limit=None
NoLimit == -1

\* LoaderStats()
NewLoaderStats == [processed |-> 0, inserted |-> 0, skipped |-> 0, errors |-> 0]

\* Variant: the loop of process_records that stops at the first record whose
\* insertion raises.
RECURSIVE ProcessLoop_StopsAtError(_, _, _, _, _, _)
ProcessLoop_StopsAtError(records, st, stats, dry_run, limit, blocklist) ==
  IF records = <<>> THEN [store |-> st, stats |-> stats]
  ELSE IF limit # NoLimit /\ stats.processed >= limit THEN [store |-> st, stats |-> stats]
  ELSE LET record == Head(records)
           counted == [stats EXCEPT !.processed = @ + 1]
           res == record_visit(st, record, dry_run)
       IN IF should_skip_blocklisted(record.domain, blocklist)
          THEN ProcessLoop_StopsAtError(Tail(records), st, [counted EXCEPT !.skipped = @ + 1],
                                        dry_run, limit, blocklist)
          ELSE IF res.raised
          THEN [store |-> st, stats |-> [counted EXCEPT !.errors = @ + 1]]
          ELSE IF res.inserted
          THEN ProcessLoop_StopsAtError(Tail(records), res.store,
                                        [counted EXCEPT !.inserted = @ + 1],
                                        dry_run, limit, blocklist)
          ELSE ProcessLoop_StopsAtError(Tail(records), res.store,
                                        [counted EXCEPT !.skipped = @ + 1],
                                        dry_run, limit, blocklist)

\* The loop of process_records over the records.
RECURSIVE ProcessLoop(_, _, _, _, _, _)
ProcessLoop(records, st, stats, dry_run, limit, blocklist) ==
  IF records = <<>> THEN [store |-> st, stats |-> stats]
  ELSE IF limit # NoLimit /\ stats.processed >= limit THEN [store |-> st, stats |-> stats]
  ELSE LET record == Head(records)
           counted == [stats EXCEPT !.processed = @ + 1]
           res == record_visit(st, record, dry_run)
       IN IF should_skip_blocklisted(record.domain, blocklist)
          THEN ProcessLoop(Tail(records), st, [counted EXCEPT !.skipped = @ + 1],
                           dry_run, limit, blocklist)
          ELSE IF res.raised
          THEN ProcessLoop(Tail(records), st, [counted EXCEPT !.errors = @ + 1],
                           dry_run, limit, blocklist)
          ELSE IF res.inserted
          THEN ProcessLoop(Tail(records), res.store, [counted EXCEPT !.inserted = @ + 1],
                           dry_run, limit, blocklist)
          ELSE ProcessLoop(Tail(records), res.store, [counted EXCEPT !.skipped = @ + 1],
                           dry_run, limit, blocklist)

\* process_records: open_connection raises in a dry run on a missing file and
\* creates the file and the schema otherwise; then the loop.
process_records(records, st, dry_run, limit, blocklist) ==
  IF dry_run /\ open_connection(st.exists) # "ok"
  THEN [error |-> open_connection(st.exists), store |-> st, stats |-> NewLoaderStats]
  ELSE LET opened == IF dry_run THEN st ELSE [st EXCEPT !.exists = TRUE]
           done == ProcessLoop(records, opened, NewLoaderStats, dry_run, limit, blocklist)
       IN [error |-> "ok", store |-> done.store, stats |-> done.stats]

\* The records a loader hands over: a.t twice at different times, once with a
\* title; a subdomain of a.t; a name with a leading blank and a capital; and
\* a record without timestamp, whose INSERT raises.
LoadRecords ==
  { [domain |-> DomA, timestamp |-> TsSun0100, title |-> <<"A">>],
    [domain |-> DomA, timestamp |-> TsMon1400, title |-> None],
    [domain |-> <<"s", ".", "a", ".", "t">>, timestamp |-> TsSun0100, title |-> None],
    [domain |-> <<" ", "B", ".", "t">>, timestamp |-> TsSun0100, title |-> None],
    [domain |-> DomC, timestamp |-> None, title |-> None] }

MaxRecords == 2

RecordLists == UNION { [1..n -> LoadRecords] : n \in 0..MaxRecords }

\* blocklist=None, or the entry a.t as load_blocklist returns it.
Blocklists == { {}, {DomA} }

Limits == {NoLimit, 1}

\* The loaders start without history.db.
InitLoader ==
  /\ DatasetIdle
  /\ call = NoCall
  /\ store = EmptyStore
  /\ run = NoScriptRun

\* One call of process_records on the store.
ProcessRecords(records, dry_run, limit, blocklist) ==
  /\ \E res \in {process_records(records, store, dry_run, limit, blocklist)} :
       /\ store' = res.store
       /\ run' = [script |-> "process_records", records |-> records, dry_run |-> dry_run,
                  limit |-> limit, blocklist |-> blocklist, before |-> store,
                  error |-> res.error, stats |-> res.stats]
  /\ UNCHANGED call
  /\ UNCHANGED datasetVars

NextLoader ==
  \E records \in RecordLists, dry_run \in BOOLEAN, limit \in Limits, blocklist \in Blocklists :
    ProcessRecords(records, dry_run, limit, blocklist)

SpecLoader == InitLoader /\ [][NextLoader]_vars

\* The latest run was process_records and it returned.
Loaded == run.script = "process_records" /\ run.error = "ok"

\* The domains of the rows of the visits table.
VisitDomains(st) == { row[1] : row \in DOMAIN st.visits }

\* The number of rows of the visits table for a domain.
RECURSIVE SumRows(_, _)
SumRows(st, rows) ==
  IF rows = {} THEN 0
  ELSE LET row == CHOOSE r \in rows : TRUE
       IN st.visits[row] + SumRows(st, rows \ {row})

VisitsOfDomain(st, domain) == SumRows(st, { row \in DOMAIN st.visits : row[1] = domain })

\* C22: after process_records (no dry run) the visits table holds at most one
\* row per (domain, timestamp), every domain's num_visits is the number of its
\* visit rows, and a record that is already stored counts as skipped.
C22_NoDuplicateVisits ==
  (Loaded /\ ~run.dry_run) =>
    /\ \A row \in DOMAIN store.visits : store.visits[row] = 1
    /\ \A domain \in DOMAIN store.domains :
         store.domains[domain].num_visits = VisitsOfDomain(store, domain)
    /\ VisitDomains(store) \subseteq DOMAIN store.domains
    /\ (/\ Len(run.records) = 1
        /\ VisitRowCount(run.before, run.records[1].domain, run.records[1].timestamp) > 0
        /\ run.limit = NoLimit)
         => (run.stats.inserted = 0 /\ run.stats.skipped = 1 /\ store = run.before)

\* A list with the same record twice was loaded: one insert, one skip, and a
\* domain with two visit rows is in the store.
C22_Witness ==
  /\ Loaded /\ ~run.dry_run
  /\ Len(run.records) = 2 /\ run.records[1] = run.records[2]
  /\ run.stats.inserted = 1 /\ run.stats.skipped = 1
  /\ DictHas(store.domains, DomA) /\ store.domains[DomA].num_visits = 2

\* The name is an entry of the blocklist or a subdomain of one.
IsBlocklisted(domain, blocklist) ==
  \E entry \in blocklist :
    \/ domain = entry
    \/ /\ Len(domain) > Len(entry) + 1
       /\ SubSeq(domain, Len(domain) - Len(entry), Len(domain)) = <<".">> \o entry

\* C24: a record whose domain is blocklisted, or a subdomain of a blocklisted
\* one, is counted as skipped and leaves no visit row and no domains row; a
\* record that is not blocklisted is inserted, and its domains row is stored
\* under the trimmed, lowercased name.
C24_BlocklistAndStoredName ==
  (Loaded /\ ~run.dry_run /\ run.limit = NoLimit /\ run.before.domains = EmptyDict) =>
    \A i \in 1..Len(run.records) :
      LET record == run.records[i]
      IN IF IsBlocklisted(record.domain, run.blocklist)
         THEN /\ record.domain \notin DOMAIN store.domains
              /\ record.domain \notin VisitDomains(store)
              /\ run.stats.skipped >= 1
         ELSE record.timestamp # None =>
                /\ Lower(Strip(record.domain)) \in DOMAIN store.domains
                /\ VisitRowCount(store, Lower(Strip(record.domain)), record.timestamp) = 1

\* The part of C24 about the blocklisted records.
C24_BlocklistedLeaveNoRow ==
  (Loaded /\ ~run.dry_run /\ run.limit = NoLimit /\ run.before.domains = EmptyDict) =>
    \A i \in 1..Len(run.records) :
      IsBlocklisted(run.records[i].domain, run.blocklist) =>
        /\ run.records[i].domain \notin DOMAIN store.domains
        /\ run.records[i].domain \notin VisitDomains(store)
        /\ run.stats.skipped >= 1

\* The number of the first n records whose insertion raises in this run.
RECURSIVE RaisingRecords(_, _, _)
RaisingRecords(records, n, blocklist) ==
  IF n = 0 THEN 0
  ELSE RaisingRecords(records, n - 1, blocklist)
       + (IF records[n].timestamp = None /\ ~IsBlocklisted(records[n].domain, blocklist)
          THEN 1 ELSE 0)

\* C29: after process_records, processed = inserted + skipped + errors;
\* processed is the number of records, or the limit when that is smaller; and
\* every record whose insertion raises is one error, the records after it
\* being processed all the same.
C29_LoaderStatsAddUp ==
  Loaded =>
    /\ run.stats.processed = run.stats.inserted + run.stats.skipped + run.stats.errors
    /\ run.limit # NoLimit => run.stats.processed <= run.limit
    /\ run.stats.processed =
         IF run.limit # NoLimit /\ run.limit < Len(run.records)
         THEN run.limit ELSE Len(run.records)
    /\ ~run.dry_run =>
         run.stats.errors = RaisingRecords(run.records, run.stats.processed, run.blocklist)

\* A record whose insertion raised was followed by one that was inserted.
C29_Witness ==
  /\ Loaded /\ ~run.dry_run /\ run.limit = NoLimit
  /\ Len(run.records) = 2
  /\ run.records[1].timestamp = None
  /\ run.stats.errors = 1 /\ run.stats.inserted = 1 /\ run.stats.processed = 2

\* A list longer than the limit was cut at the limit.
C29_WitnessLimit ==
  /\ Loaded /\ run.limit = 1 /\ Len(run.records) = 2 /\ run.stats.processed = 1

\* ------------------------------------------------------------------------
\* lib.history_db and lib.utils: extract_domain, is_ip_or_local and the
\* sentinel for local development hosts
\* ------------------------------------------------------------------------

\* LOCAL_DEVELOPMENT of lib.history_db
LOCAL_DEVELOPMENT == <<"L", "O", "C", "A", "L", "_", "D", "E", "V", "E", "L", "O", "P", "M", "E", "N", "T">>

\* LOCAL_DEVELOPMENT of lib.utils
utils_LOCAL_DEVELOPMENT == <<"l", "o", "c", "a", "l", "_", "d", "e", "v", "e", "l", "o", "p", "m", "e", "n", "t">>

\* The value of a decimal digit, -1 for any other character.
DigitOf(ch) ==
  CASE ch = "0" -> 0 [] ch = "1" -> 1 [] ch = "2" -> 2 [] ch = "3" -> 3 [] ch = "4" -> 4
    [] ch = "5" -> 5 [] ch = "6" -> 6 [] ch = "7" -> 7 [] ch = "8" -> 8 [] ch = "9" -> 9
    [] OTHER -> -1

\* int(part) for a text of digits
RECURSIVE DecimalValue(_)
DecimalValue(part) ==
  IF part = <<>> THEN 0
  ELSE 10 * DecimalValue(SubSeq(part, 1, Len(part) - 1)) + DigitOf(part[Len(part)])

\* An octet of a dotted quad as ipaddress accepts it: one to three digits, no
\* leading zero, at most 255.
IsOctet(part) ==
  /\ Len(part) \in 1..3
  /\ \A i \in 1..Len(part) : DigitOf(part[i]) >= 0
  /\ (Len(part) > 1 => part[1] # "0")
  /\ DecimalValue(part) <= 255

\* ip_address(host) returns an address (IPv4 literals; no host of the model
\* is an IPv6 literal).
IsIpAddress(host) ==
  LET parts == Split(host, ".")
  IN Len(parts) = 4 /\ \A i \in 1..4 : IsOctet(parts[i])

\* The four octets of an IPv4 literal.
Octets(host) == [i \in 1..4 |-> DecimalValue(Split(host, ".")[i])]

\* _is_private_ip: is_private or is_loopback or is_link_local, by the address
\* blocks of the ipaddress module.
_is_private_ip(o) ==
  \/ o[1] = 0
  \/ o[1] = 10
  \/ o[1] = 127
  \/ (o[1] = 169 /\ o[2] = 254)
  \/ (o[1] = 172 /\ o[2] \in 16..31)
  \/ (o[1] = 192 /\ o[2] = 0 /\ o[3] = 0 /\ o[4] \in 0..7)
  \/ (o[1] = 192 /\ o[2] = 0 /\ o[3] = 0 /\ o[4] \in 170..171)
  \/ (o[1] = 192 /\ o[2] = 0 /\ o[3] = 2)
  \/ (o[1] = 192 /\ o[2] = 168)
  \/ (o[1] = 198 /\ o[2] \in 18..19)
  \/ (o[1] = 198 /\ o[2] = 51 /\ o[3] = 100)
  \/ (o[1] = 203 /\ o[2] = 0 /\ o[3] = 113)
  \/ o[1] >= 240

\* is_ip_or_local of lib.history_db
is_ip_or_local(domain) == domain = LOCAL_DEVELOPMENT \/ IsIpAddress(domain)

\* is_ip_or_local of lib.utils
utils_is_ip_or_local(domain) == domain = utils_LOCAL_DEVELOPMENT \/ IsIpAddress(domain)

\* The index where sub starts in s first, 0 when s does not contain it.
Find(s, sub) ==
  LET starts == { i \in 1..(Len(s) - Len(sub) + 1) : SubSeq(s, i, i + Len(sub) - 1) = sub }
  IN IF starts = {} THEN 0 ELSE CHOOSE i \in starts : \A j \in starts : i <= j

\* What extract_domain returns when it raises ValueError.
RaisesValueError == <<"ValueError">>

\* The host that both versions of extract_domain take from the URL:
\* urlparse(candidate).netloc, or the first segment of the path when the
\* netloc is empty; without user info and port, lowercased, without "www.".
HostOf(url) ==
  LET stripped == Strip(url)
      candidate == IF Find(stripped, <<":", "/", "/">>) = 0 THEN <<"h", "t", "t", "p", ":", "/", "/">> \o stripped ELSE stripped
      rest == SubSeq(candidate, Find(candidate, <<":", "/", "/">>) + 3, Len(candidate))
      netloc == Split(rest, "/")[1]
      path == SubSeq(rest, Len(netloc) + 1, Len(rest))
      location == IF netloc # <<>> THEN netloc ELSE Split(path, "/")[1]
      userhost == Split(location, "@")
      host == Lower(Split(userhost[Len(userhost)], ":")[1])
  IN IF Len(host) >= 4 /\ SubSeq(host, 1, 4) = <<"w", "w", "w", ".">> THEN SubSeq(host, 5, Len(host)) ELSE host

\* extract_domain of lib.history_db, the one the loaders import.
extract_domain(url) ==
  LET host == HostOf(url)
  IN IF host = <<>> THEN RaisesValueError
     ELSE IF ~IsIpAddress(host) THEN host
     ELSE IF _is_private_ip(Octets(host)) THEN LOCAL_DEVELOPMENT
     ELSE host

\* extract_domain of lib.utils
utils_extract_domain(url) ==
  LET host == HostOf(url)
  IN IF host = <<>> THEN RaisesValueError
     ELSE IF ~IsIpAddress(host) THEN host
     ELSE IF _is_private_ip(Octets(host)) THEN utils_LOCAL_DEVELOPMENT
     ELSE host

\* should_skip_url: URLs with a scheme other than http and https are not
\* loaded.
should_skip_url(url) ==
  LET stripped == LStrip(url)
      k == Find(stripped, <<":", "/", "/">>)
      scheme == IF k = 0 THEN <<>> ELSE Lower(SubSeq(stripped, 1, k - 1))
  IN scheme \notin {<<>>, <<"h", "t", "t", "p">>, <<"h", "t", "t", "p", "s">>}

\* The URLs of the exports: private, loopback, link-local and public address
\* literals and names, with and without scheme, user, port and path.
PrivateHosts == {<<"1", "0", ".", "0", ".", "0", ".", "1">>, <<"1", "2", "7", ".", "0", ".", "0", ".", "1">>, <<"1", "6", "9", ".", "2", "5", "4", ".", "1", ".", "1">>, <<"1", "9", "2", ".", "1", "6", "8", ".", "1", ".", "2", "5">>}

PublicHosts == {<<"8", ".", "8", ".", "8", ".", "8">>}

NamedHosts == {<<"a", ".", "t">>, <<"w", "w", "w", ".", "A", ".", "t">>, <<"9", "9", "9", ".", "1", ".", "1", ".", "1">>}

UrlParts ==
  { p \in [pad : {<<>>, <<" ">>},
           scheme : {<<>>, <<"h", "t", "t", "p", ":", "/", "/">>, <<"h", "t", "t", "p", "s", ":", "/", "/">>, <<"f", "t", "p", ":", "/", "/">>},
           user : {<<>>, <<"u", "@">>},
           host : PrivateHosts \cup PublicHosts \cup NamedHosts,
           port : {<<>>, <<":", "8">>},
           path : {<<>>, <<"/", "x">>}] :
      p.scheme = <<>> => (p.port = <<>> /\ p.user = <<>>) }

\* parse_chrome_records for one entry of the export: the records it yields.
parse_chrome_records(url, timestamp, title) ==
  IF should_skip_url(url) THEN <<>>
  ELSE << [domain |-> extract_domain(url), timestamp |-> timestamp, title |-> title] >>

InitExtractDomain ==
  /\ DatasetIdle
  /\ store = EmptyStore
  /\ run = NoScriptRun
  /\ \E p \in UrlParts :
       call = [fn |-> "extract_domain", parts |-> p, done |-> FALSE,
               url |-> p.pad \o p.scheme \o p.user \o p.host \o p.port \o p.path \o p.pad]

\* A loader loads an export with this one URL into a new store (load_file);
\* lib.utils.extract_domain is applied to the same URL.
LoadUrl ==
  /\ call.fn = "extract_domain"
  /\ ~call.done
  /\ LET records == parse_chrome_records(call.url, TsSun0100, None)
     IN \E res \in {process_records(records, store, FALSE, NoLimit, {})} :
          /\ store' = res.store
          /\ run' = [script |-> "process_records", records |-> records, dry_run |-> FALSE,
                     limit |-> NoLimit, blocklist |-> {}, before |-> store,
                     error |-> res.error, stats |-> res.stats]
          /\ call' = [call EXCEPT !.done = TRUE] @@
                       [skipped |-> should_skip_url(call.url),
                        utils |-> utils_extract_domain(call.url)]
  /\ UNCHANGED datasetVars

SpecExtractDomain == InitExtractDomain /\ [][LoadUrl]_vars

\* A URL of the export was loaded.
UrlLoaded == call.fn = "extract_domain" /\ call.done /\ ~call.skipped

\* C27: a URL whose host is a private, loopback or link-local address is
\* stored under the one sentinel local_development, which is what
\* lib.utils.extract_domain returns for it and what both is_ip_or_local
\* recognize; a public address literal is stored as itself.
C27_OneSentinel ==
  UrlLoaded =>
    /\ call.parts.host \in PrivateHosts =>
         /\ DOMAIN store.domains = {utils_LOCAL_DEVELOPMENT}
         /\ DOMAIN store.domains = {call.utils}
         /\ \A domain \in DOMAIN store.domains :
              is_ip_or_local(domain) /\ utils_is_ip_or_local(domain)
    /\ call.parts.host \in PublicHosts => DOMAIN store.domains = {call.parts.host}

\* What the code does: the loaders store LOCAL_DEVELOPMENT of lib.history_db,
\* which lib.utils neither returns nor recognizes.
C27_LoaderSentinel ==
  UrlLoaded =>
    /\ call.parts.host \in PrivateHosts =>
         /\ DOMAIN store.domains = {LOCAL_DEVELOPMENT}
         /\ call.utils = utils_LOCAL_DEVELOPMENT
         /\ \A domain \in DOMAIN store.domains :
              is_ip_or_local(domain) /\ ~utils_is_ip_or_local(domain)
    /\ call.parts.host \in PublicHosts => DOMAIN store.domains = {call.parts.host}
    /\ call.parts.host \in NamedHosts =>
         DOMAIN store.domains \subseteq {<<"a", ".", "t">>, <<"9", "9", "9", ".", "1", ".", "1", ".", "1">>}

\* ------------------------------------------------------------------------
\* find-favicons.py: _pending_domains, _persist_result, _mark_checked and
\* refresh_favicons
\* ------------------------------------------------------------------------

\* The names in ORDER BY domain.
RECURSIVE SortedNames(_)
SortedNames(names) ==
  IF names = {} THEN <<>>
  ELSE LET least == CHOOSE n \in names : \A o \in names \ {n} : StrLess(n, o)
       IN <<least>> \o SortedNames(names \ {least})

\* _pending_domains: the rows not checked yet (with ignore_checked also those
\* without favicon data), in the order of the names, cut at the limit.
_pending_domains(st, limit, ignore_checked) ==
  LET selected == { d \in DOMAIN st.domains :
                      \/ st.domains[d].checked = 0
                      \/ (ignore_checked /\ st.domains[d].favicon_data = None) }
      ordered == SortedNames(selected)
  IN IF limit # NoLimit /\ limit < Len(ordered) THEN SubSeq(ordered, 1, limit) ELSE ordered

\* Variant: _mark_checked that leaves the row as it is.
_mark_checked_LeavesUnchecked(st, domain, dry_run) == st

\* Variant: _mark_checked that writes also in a dry run.
_mark_checked_WritesInDryRun(st, domain, dry_run) ==
  IF ~DictHas(st.domains, domain) THEN st
  ELSE [st EXCEPT !.domains = DictSet(@, domain, [@[domain] EXCEPT !.checked = 1,
                                                              !.check_timestamp = <<"now">>])]

\* _mark_checked
_mark_checked(st, domain, dry_run) ==
  IF dry_run THEN st
  ELSE IF ~DictHas(st.domains, domain) THEN st
  ELSE [st EXCEPT !.domains = DictSet(@, domain, [@[domain] EXCEPT !.checked = 1,
                                                              !.check_timestamp = <<"now">>])]

\* _persist_result: nothing in a dry run; else the row is marked checked, gets
\* the page title when it has none, and the icon when the result has data.
\* It raises when the UPDATE fails (fails) or matches no row.
_persist_result(st, result, dry_run, fails) ==
  IF dry_run THEN [store |-> st, raised |-> FALSE]
  ELSE IF fails \/ ~DictHas(st.domains, result.domain) THEN [store |-> st, raised |-> TRUE]
  ELSE LET row == st.domains[result.domain]
           titled == IF (row.title = None \/ Strip(row.title) = <<>>) /\ result.title # None
                     THEN [row EXCEPT !.title = result.title] ELSE row
           checked == [titled EXCEPT !.checked = 1, !.check_timestamp = <<"now">>]
           updated == IF result.data # None
                      THEN [checked EXCEPT !.favicon_type = result.mime_type,
                                           !.favicon_data = result.data]
                      ELSE checked
       IN [store |-> [st EXCEPT !.domains = DictSet(@, result.domain, updated)],
           raised |-> FALSE]

\* FaviconStats()
NewFaviconStats == [processed |-> 0, updated |-> 0, missing |-> 0, errors |-> 0]

\* What the requests for one domain do: the number of attempts that time out
\* (three end the retries), then a page with an icon or with an empty icon,
\* a 4xx or 5xx status, or another HTTP error; and whether the UPDATE of
\* _persist_result fails.
FetchOutcomes ==
  { [timeouts |-> 0, kind |-> "icon", persist_fails |-> FALSE],
    [timeouts |-> 0, kind |-> "empty", persist_fails |-> FALSE],
    [timeouts |-> 0, kind |-> "4xx", persist_fails |-> FALSE],
    [timeouts |-> 0, kind |-> "5xx", persist_fails |-> FALSE],
    [timeouts |-> 0, kind |-> "error", persist_fails |-> FALSE],
    [timeouts |-> 3, kind |-> "timeout", persist_fails |-> FALSE],
    [timeouts |-> 1, kind |-> "icon", persist_fails |-> FALSE],
    [timeouts |-> 0, kind |-> "icon", persist_fails |-> TRUE] }

\* The FaviconResult of _process_domain for a page that was fetched.
FaviconResult(domain, outcome) ==
  [domain |-> domain, title |-> <<"P">>, mime_type |-> <<"i", "m", "a", "g", "e", "/", "p", "n", "g">>,
   data |-> IF outcome.kind = "icon" THEN <<"i">> ELSE <<>>]

\* One iteration of the loop of refresh_favicons: the store, the counters and
\* what happened to the domain.
RefreshOne(st, stats, domain, outcome, dry_run, blocklist) ==
  LET counted == [stats EXCEPT !.processed = @ + 1]
      result == FaviconResult(domain, outcome)
      persisted == _persist_result(st, result, dry_run, outcome.persist_fails)
  IN IF should_skip_blocklisted(domain, blocklist)
     THEN [store |-> _mark_checked(st, domain, dry_run),
           stats |-> [counted EXCEPT !.missing = @ + 1], event |-> "blocklisted"]
     ELSE IF is_ip_or_local(domain)
     THEN [store |-> _mark_checked(st, domain, dry_run),
           stats |-> [counted EXCEPT !.missing = @ + 1], event |-> "ip_or_local"]
     ELSE IF outcome.timeouts >= 3
     THEN \* the third TimeoutException is counted, the row marked, and the
          \* exception raised again: except httpx.HTTPError counts it again
          [store |-> _mark_checked(st, domain, dry_run),
           stats |-> [counted EXCEPT !.errors = @ + 2], event |-> "timeout"]
     ELSE IF outcome.kind = "4xx"
     THEN [store |-> _mark_checked(st, domain, dry_run),
           stats |-> [counted EXCEPT !.missing = @ + 1], event |-> "4xx"]
     ELSE IF outcome.kind = "5xx"
     THEN [store |-> st, stats |-> [counted EXCEPT !.errors = @ + 1], event |-> "5xx"]
     ELSE IF outcome.kind = "error"
     THEN [store |-> st, stats |-> [counted EXCEPT !.errors = @ + 1], event |-> "error"]
     ELSE IF persisted.raised
     THEN [store |-> st, stats |-> [counted EXCEPT !.errors = @ + 1],
           event |-> "persist_failed"]
     ELSE IF result.data # <<>>
     THEN [store |-> persisted.store, stats |-> [counted EXCEPT !.updated = @ + 1],
           event |-> "updated"]
     ELSE [store |-> persisted.store, stats |-> [counted EXCEPT !.missing = @ + 1],
           event |-> "missing"]

\* The loop of refresh_favicons over the pending domains.
RECURSIVE RefreshLoop(_, _, _, _, _, _, _)
RefreshLoop(pending, st, stats, events, outcomes, dry_run, blocklist) ==
  IF pending = <<>> THEN [store |-> st, stats |-> stats, events |-> events]
  ELSE LET domain == Head(pending)
           outcome == IF DictHas(outcomes, domain) THEN outcomes[domain]
                      ELSE [timeouts |-> 0, kind |-> "none", persist_fails |-> FALSE]
           one == RefreshOne(st, stats, domain, outcome, dry_run, blocklist)
       IN RefreshLoop(Tail(pending), one.store, one.stats,
                      DictSet(events, domain, one.event), outcomes, dry_run, blocklist)

\* refresh_favicons
refresh_favicons(st, outcomes, dry_run, limit, blocklist, ignore_checked) ==
  IF dry_run /\ open_connection(st.exists) # "ok"
  THEN [error |-> open_connection(st.exists), store |-> st, stats |-> NewFaviconStats,
        pending |-> <<>>, events |-> EmptyDict]
  ELSE LET opened == IF dry_run THEN st ELSE [st EXCEPT !.exists = TRUE]
           pending == _pending_domains(opened, limit, ignore_checked)
           done == RefreshLoop(pending, opened, NewFaviconStats, EmptyDict, outcomes,
                               dry_run, blocklist)
       IN [error |-> "ok", store |-> done.store, stats |-> done.stats,
           pending |-> pending, events |-> done.events]

\* The store the loaders left: a.t with a title, c.t without, the sentinel of
\* the private addresses and a public address literal, none checked yet.
LoadedStore ==
  LET names == {DomA, DomC, LOCAL_DEVELOPMENT, <<"8", ".", "8", ".", "8", ".", "8">>}
  IN [exists |-> TRUE,
      visits |-> [row \in { <<d, TsSun0100>> : d \in names } |-> 1],
      domains |-> [d \in names |->
                     [NewDomainRow(IF d = DomA THEN <<"A">> ELSE None)
                        EXCEPT !.num_visits = 1]]]

MaxRefreshRuns == 2

InitFavicons ==
  /\ DatasetIdle
  /\ call = NoCall
  /\ store \in {EmptyStore, LoadedStore}
  /\ run = NoScriptRun

\* The domains the run will request: pending, not blocklisted, no address.
Fetched(st, dry_run, limit, blocklist, ignore_checked) ==
  LET opened == IF dry_run THEN st ELSE [st EXCEPT !.exists = TRUE]
      pending == _pending_domains(opened, limit, ignore_checked)
  IN { pending[i] : i \in { j \in 1..Len(pending) :
                              /\ ~should_skip_blocklisted(pending[j], blocklist)
                              /\ ~is_ip_or_local(pending[j]) } }

\* One call of refresh_favicons on the store; the servers answer by outcomes.
RefreshFavicons(dry_run, limit, blocklist, ignore_checked) ==
  /\ run.script = "refresh_favicons" => run.index < MaxRefreshRuns
  /\ \E outcomes \in [Fetched(store, dry_run, limit, blocklist, ignore_checked) -> FetchOutcomes] :
     \E res \in {refresh_favicons(store, outcomes, dry_run, limit, blocklist, ignore_checked)} :
       /\ store' = res.store
       /\ run' = [script |-> "refresh_favicons", index |-> IF run.script = "refresh_favicons" THEN run.index + 1 ELSE 1,
                  dry_run |-> dry_run, limit |-> limit, blocklist |-> blocklist,
                  ignore_checked |-> ignore_checked, before |-> store,
                  error |-> res.error, stats |-> res.stats, pending |-> res.pending,
                  events |-> res.events,
                  previous |-> IF run.script # "refresh_favicons" THEN NoScriptRun
                               ELSE [script |-> "refresh_favicons", dry_run |-> run.dry_run,
                                     error |-> run.error, events |-> run.events]]
  /\ UNCHANGED call
  /\ UNCHANGED datasetVars

NextFavicons ==
  \E dry_run \in BOOLEAN, limit \in Limits, blocklist \in Blocklists, ignore_checked \in BOOLEAN :
    RefreshFavicons(dry_run, limit, blocklist, ignore_checked)

SpecFavicons == InitFavicons /\ [][NextFavicons]_vars

\* The latest run was refresh_favicons and it returned.
Refreshed == run.script = "refresh_favicons" /\ run.error = "ok"

\* C28: after refresh_favicons every processed domain has incremented exactly
\* one of updated, missing and errors by one: processed = updated + missing +
\* errors.
C28_FaviconStatsAddUp ==
  Refreshed =>
    run.stats.processed = run.stats.updated + run.stats.missing + run.stats.errors

\* The counters add up whenever no domain timed out three times.
C28_AddUpWithoutTimeout ==
  (Refreshed /\ \A d \in DOMAIN run.events : run.events[d] # "timeout") =>
    run.stats.processed = run.stats.updated + run.stats.missing + run.stats.errors

\* C23: a dry run changes nothing in the store.  The store after a dry run of
\* refresh_favicons is the store before it, whatever the servers answer; and
\* a dry run of process_records on the store, for every list of records,
\* limit and blocklist, returns the same store and inserted = 0.
C23_DryRunChangesNothing ==
  /\ (run.script = "refresh_favicons" /\ run.dry_run) => store = run.before
  /\ \A records \in RecordLists, limit \in Limits, blocklist \in Blocklists :
       LET res == process_records(records, store, TRUE, limit, blocklist)
       IN res.store = store /\ res.stats.inserted = 0

\* A dry run of refresh_favicons fetched an icon for a domain that is still
\* unchecked and without icon afterwards, in a store where a dry run of
\* process_records handles a record of a domain the store does not hold.
C23_Witness ==
  /\ Refreshed /\ run.dry_run
  /\ \E d \in DOMAIN run.events :
       /\ run.events[d] = "updated"
       /\ store.domains[d].checked = 0
       /\ store.domains[d].favicon_data = None
  /\ \E records \in RecordLists :
       /\ Len(records) = 1
       /\ records[1].timestamp # None
       /\ ~DictHas(store.domains, records[1].domain)
       /\ process_records(records, store, TRUE, NoLimit, {}).stats.skipped = 1

\* The domains a run skipped and marked: blocklisted, address or sentinel, 4xx.
SkippedEvents == {"blocklisted", "ip_or_local", "4xx"}

\* The domains a run leaves for the next one: 5xx and other HTTP errors.
RetryEvents == {"5xx", "error"}

\* What C26 says of the run that just ended, and of the run before it.  As
\* stated it speaks of every run and every pending domain; otherwise of the
\* runs that are no dry runs and, for the failures, of the domains that were
\* unchecked before the run.
C26_Marking(asStated) ==
  /\ (Refreshed /\ (asStated \/ ~run.dry_run)) =>
       \A d \in DOMAIN run.events :
         /\ run.events[d] \in SkippedEvents =>
              /\ store.domains[d].checked = 1
              /\ store.domains[d].favicon_data = run.before.domains[d].favicon_data
              /\ store.domains[d].favicon_type = run.before.domains[d].favicon_type
              /\ run.stats.missing >= 1
              /\ \A limit \in Limits :
                   \A i \in 1..Len(_pending_domains(store, limit, FALSE)) :
                     _pending_domains(store, limit, FALSE)[i] # d
         /\ run.events[d] \in RetryEvents =>
              /\ store.domains[d] = run.before.domains[d]
              /\ (asStated \/ run.before.domains[d].checked = 0) =>
                   /\ store.domains[d].checked = 0
                   /\ \E i \in 1..Len(_pending_domains(store, NoLimit, FALSE)) :
                        _pending_domains(store, NoLimit, FALSE)[i] = d
  /\ (/\ Refreshed
      /\ run.index = 2
      /\ run.previous.error = "ok"
      /\ (asStated \/ ~run.previous.dry_run)) =>
       \A d \in DOMAIN run.previous.events :
         /\ (run.previous.events[d] \in SkippedEvents /\ ~run.ignore_checked) =>
              \A i \in 1..Len(run.pending) : run.pending[i] # d
         /\ (/\ run.previous.events[d] \in RetryEvents
             /\ run.limit = NoLimit
             /\ (asStated \/ run.before.domains[d].checked = 0)) =>
              \E i \in 1..Len(run.pending) : run.pending[i] = d

\* C26: a pending domain that refresh_favicons skips as address or sentinel,
\* as blocklisted, or for a 4xx status is marked checked, keeps its favicon
\* data, counts as missing and is not pending for a later run without
\* ignore_checked; a domain that fails with 5xx or another HTTP error stays
\* unchecked and is selected again by the next run.
C26_SkippedAreChecked == C26_Marking(TRUE)

\* C26 for the runs that are no dry runs: the skipped domains are marked
\* checked and not selected again; a domain that fails with 5xx or another
\* HTTP error keeps its row, and when it was unchecked it is selected again
\* by the next run (that has no limit).
C26_SkippedAreCheckedUnlessDryRun == C26_Marking(FALSE)

\* Two runs, the first no dry run: it skipped the sentinel, a blocklisted
\* domain or a 4xx domain and failed on another with 5xx; the second run
\* selected the failed domain again and none of the skipped ones.
C26_Witness ==
  /\ Refreshed /\ run.index = 2 /\ ~run.ignore_checked /\ run.limit = NoLimit
  /\ run.previous.error = "ok" /\ ~run.previous.dry_run
  /\ DictHas(run.previous.events, LOCAL_DEVELOPMENT)
  /\ run.previous.events[LOCAL_DEVELOPMENT] = "ip_or_local"
  /\ DictHas(run.previous.events, DomA)
  /\ run.previous.events[DomA] \in {"blocklisted", "4xx"}
  /\ DictHas(run.previous.events, DomC)
  /\ run.previous.events[DomC] \in RetryEvents
  /\ run.pending = <<DomC>>

\* ------------------------------------------------------------------------
\* lib.domain_map: load_domain_map, write_domain_map, update_domain_map
\* ------------------------------------------------------------------------

\* coerce_str: None stays None, a text is stripped, an empty one is None.
coerce_str(value) ==
  IF value = None THEN None
  ELSE IF Strip(value) = <<>> THEN None ELSE Strip(value)

\* The inner loop of load_domain_map over an entry's 'secondary' list.
RECURSIVE MappingSecondary(_)
MappingSecondary(items) ==
  IF items = <<>> THEN <<>>
  ELSE LET normalized == utils_normalize_tag(coerce_str(Head(items)))
       IN IF Truthy(normalized) THEN <<normalized>> \o MappingSecondary(Tail(items))
          ELSE MappingSecondary(Tail(items))

\* The loop of load_domain_map over the entries of the 'domains' list.
RECURSIVE MappingEntries(_, _)
MappingEntries(entries, mapping) ==
  IF entries = <<>> THEN mapping
  ELSE LET entry == Head(entries)
           name == coerce_str(entry.domain)
           domain == IF name = None THEN <<>> ELSE Lower(name)
       IN IF ~entry.isdict \/ domain = <<>> THEN MappingEntries(Tail(entries), mapping)
          ELSE MappingEntries(Tail(entries),
                 DictSet(mapping, domain,
                         [primary |-> utils_normalize_tag(coerce_str(entry.primary)),
                          secondary |-> MappingSecondary(entry.secondary)]))

\* load_domain_map: a missing or empty file is the empty mapping; a top level
\* or a 'domains' value of the wrong type raises ValueError.
load_domain_map(file) ==
  IF ~file.exists \/ file.payload = "null" THEN [error |-> "ok", mapping |-> EmptyDict]
  ELSE IF file.payload # "dict" \/ ~file.islist
  THEN [error |-> "ValueError", mapping |-> EmptyDict]
  ELSE [error |-> "ok", mapping |-> MappingEntries(file.items, EmptyDict)]

\* The entries write_domain_map dumps, one per domain in sorted order.
RECURSIVE DomainsPayload(_, _)
DomainsPayload(names, mapping) ==
  IF names = <<>> THEN <<>>
  ELSE << [isdict |-> TRUE, domain |-> Head(names),
           primary |-> mapping[Head(names)].primary,
           secondary |-> mapping[Head(names)].secondary] >>
       \o DomainsPayload(Tail(names), mapping)

\* write_domain_map: the file it writes.
write_domain_map(mapping) ==
  [exists |-> TRUE, payload |-> "dict", islist |-> TRUE,
   items |-> DomainsPayload(SortedNames(DOMAIN mapping), mapping)]

\* Variant: merge_lists that appends the incoming list.
merge_lists_Appends(existing, incoming) == existing \o incoming

\* merge_lists: sorted(set(existing) | set(incoming))
merge_lists(existing, incoming) ==
  SortedNames({existing[i] : i \in 1..Len(existing)} \cup {incoming[i] : i \in 1..Len(incoming)})

\* Variant: the primary of an existing entry is overwritten also by None.
MergeEntry_OverwritesPrimary(existing_entry, entry) ==
  [primary |-> entry.primary,
   secondary |-> merge_lists(existing_entry.secondary, entry.secondary)]

\* The body of update_domain_map's loop for a domain the file has.
MergeEntry(existing_entry, entry) ==
  [primary |-> IF entry.primary # None THEN entry.primary ELSE existing_entry.primary,
   secondary |-> merge_lists(existing_entry.secondary, entry.secondary)]

\* update_domain_map: the file after the call; the ValueError of
\* load_domain_map leaves the file as it is.
update_domain_map(file, mapping) ==
  LET loaded == load_domain_map(file)
      existing_mapping == loaded.mapping
      merged == [domain \in DOMAIN existing_mapping \cup DOMAIN mapping |->
                   IF domain \notin DOMAIN mapping THEN existing_mapping[domain]
                   ELSE IF domain \in DOMAIN existing_mapping
                   THEN MergeEntry(existing_mapping[domain], mapping[domain])
                   ELSE mapping[domain]]
  IN IF loaded.error # "ok" THEN [error |-> loaded.error, file |-> file]
     ELSE [error |-> "ok", file |-> write_domain_map(merged)]

\* The files update_domain_map finds: those of the dataset generation, and a
\* file as write_domain_map leaves it, with entries for a.t and c.t.
WrittenMapFile ==
  [exists |-> TRUE, payload |-> "dict", islist |-> TRUE,
   items |-> << [isdict |-> TRUE, domain |-> DomA, primary |-> <<"n", "e", "w", "s">>,
                 secondary |-> <<<<"t", "u", "t">>>>],
                [isdict |-> TRUE, domain |-> DomC, primary |-> None,
                 secondary |-> <<<<"w", "e", "b">>, <<"a", "r", "t">>>>] >>]

MapFiles == DomainMapFiles \cup {WrittenMapFile}

\* The entries of the incoming mapping.
IncomingEntries ==
  { [primary |-> None, secondary |-> <<<<"a", "r", "t">>>>],
    [primary |-> <<"w", "e", "b">>, secondary |-> <<<<"w", "e", "b">>, <<"a", "r", "t">>, <<"w", "e", "b">>>>],
    [primary |-> None, secondary |-> <<>>],
    [primary |-> <<"a", "r", "t">>, secondary |-> <<<<"t", "u", "t">>>>] }

\* The incoming mappings: entries for a.t, for d.t, for both or for none.
IncomingMappings ==
  UNION { [names -> IncomingEntries] : names \in SUBSET {DomA, DomD} }

InitDomainMap ==
  /\ dbExists = FALSE
  /\ visits = {}
  /\ domains = <<>>
  /\ secondary = {}
  /\ categoriesFile = None
  /\ domainMapFile \in MapFiles
  /\ dirs = {}
  /\ files = EmptyDict
  /\ last = NoRun
  /\ store = EmptyStore
  /\ run = NoScriptRun
  /\ \E mapping \in IncomingMappings :
       call = [fn |-> "update_domain_map", mapping |-> mapping, done |-> FALSE]

\* One call of update_domain_map on domain-category-map.yaml.
UpdateDomainMap ==
  /\ call.fn = "update_domain_map"
  /\ ~call.done
  /\ \E res \in {update_domain_map(domainMapFile, call.mapping)} :
       /\ domainMapFile' = res.file
       /\ call' = [call EXCEPT !.done = TRUE] @@ [error |-> res.error, before |-> domainMapFile]
  /\ UNCHANGED <<dbExists, visits, domains, secondary, categoriesFile, dirs, files, last>>
  /\ UNCHANGED <<store, run>>

SpecDomainMap == InitDomainMap /\ [][UpdateDomainMap]_vars

\* update_domain_map returned.
MapUpdated == call.fn = "update_domain_map" /\ call.done /\ call.error = "ok"

\* The entries the file holds for a domain, as written.
WrittenEntries(domain) ==
  { i \in 1..Len(domainMapFile.items) : domainMapFile.items[i].domain = domain }

WrittenEntry(domain) ==
  domainMapFile.items[CHOOSE i \in WrittenEntries(domain) : TRUE]

ListSet(list) == { list[i] : i \in 1..Len(list) }

\* C25: after update_domain_map the file holds one entry for every domain of
\* the existing file and of the incoming mapping; an existing entry the
\* incoming mapping does not mention is kept; for a domain in both, the
\* primary is the incoming one unless that is None, and the secondary is the
\* sorted union of both lists without duplicates; a domain only in the
\* incoming mapping is added as given.
C25_UpdateMerges ==
  MapUpdated =>
    LET existing == load_domain_map(call.before).mapping
        incoming == call.mapping
    IN /\ \A domain \in DOMAIN existing \cup DOMAIN incoming :
            Cardinality(WrittenEntries(domain)) = 1
       /\ \A i \in 1..Len(domainMapFile.items) :
            domainMapFile.items[i].domain \in DOMAIN existing \cup DOMAIN incoming
       /\ \A domain \in DOMAIN existing \ DOMAIN incoming :
            /\ WrittenEntry(domain).primary = existing[domain].primary
            /\ WrittenEntry(domain).secondary = existing[domain].secondary
       /\ \A domain \in DOMAIN existing \cap DOMAIN incoming :
            /\ WrittenEntry(domain).primary =
                 IF incoming[domain].primary # None
                 THEN incoming[domain].primary ELSE existing[domain].primary
            /\ ListSet(WrittenEntry(domain).secondary) =
                 ListSet(existing[domain].secondary) \cup ListSet(incoming[domain].secondary)
            /\ \A j \in 1..(Len(WrittenEntry(domain).secondary) - 1) :
                 StrLess(WrittenEntry(domain).secondary[j],
                         WrittenEntry(domain).secondary[j + 1])
       /\ \A domain \in DOMAIN incoming \ DOMAIN existing :
            /\ WrittenEntry(domain).primary = incoming[domain].primary
            /\ WrittenEntry(domain).secondary = incoming[domain].secondary

\* The file had entries for a.t and c.t; the incoming mapping had a.t without
\* primary and with a new secondary tag, and the new domain d.t.
C25_Witness ==
  /\ MapUpdated
  /\ call.before = WrittenMapFile
  /\ DOMAIN call.mapping = {DomA, DomD}
  /\ call.mapping[DomA].primary = None
  /\ WrittenEntry(DomA).primary = <<"n", "e", "w", "s">>
  /\ WrittenEntry(DomA).secondary = <<<<"a", "r", "t">>, <<"t", "u", "t">>>>
  /\ WrittenEntry(DomC).secondary = <<<<"w", "e", "b">>, <<"a", "r", "t">>>>
  /\ Len(domainMapFile.items) = 3

\* ------------------------------------------------------------------------
\* write_outputs with and without skip_sprites
\* ------------------------------------------------------------------------

IsDataWrite(write) == write.kind # "sprite"

\* The level0 and level1 files of a run, in the order they are written.
DataWrites(writes) == SelectSeq(writes, IsDataWrite)

\* A level1 entry without its `sprite` key.
WithoutSprite(entry) == [field \in DOMAIN entry \ {"sprite"} |-> entry[field]]

\* What write_outputs does on the store and configuration of the latest run
\* with the other value of skip_sprites.
OtherRun ==
  write_outputs(dbExists, visits, domains, secondary, categoriesFile, domainMapFile,
                ~last.skip, last.timezone, 0)

\* C30: for the same store, taxonomy and overrides the level0 data and every
\* level1 entry written with skip_sprites are those written without it,
\* except for the `sprite` key; the site entries keep favicon_symbol_id in the
\* skipped run, where no sprite document is written.
C30_SkipChangesOnlySpriteKey ==
  Ran =>
    LET these == DataWrites(last.writes)
        those == DataWrites(OtherRun.writes)
    IN /\ OtherRun.error = "ok"
       /\ Len(these) = Len(those)
       /\ \A i \in 1..Len(these) :
            /\ these[i].path = those[i].path
            /\ these[i].kind = those[i].kind
            /\ these[i].kind = "level0" => these[i].content = those[i].content
            /\ these[i].kind = "level1" =>
                 /\ WithoutSprite(these[i].content) = WithoutSprite(those[i].content)
                 /\ ("sprite" \in DOMAIN these[i].content) = ~last.skip
                 /\ ("sprite" \in DOMAIN those[i].content) = last.skip
       /\ last.skip => \A i \in 1..Len(last.writes) : last.writes[i].kind # "sprite"

\* A run with skip_sprites wrote a level1 entry with a site that carries
\* favicon_symbol_id, and no sprite file.
C30_Witness ==
  /\ Ran
  /\ last.skip
  /\ \E key \in DOMAIN last.aggregates :
       WithSymbol(AllSites(Level1Entry(key))) # {}
  /\ \A path \in DOMAIN files : files[path].kind # "sprite"
  /\ CountKind(OtherRun.writes, "sprite") >= 1

====
